---- MODULE Spec2Model ----
(***************************************************************************)
(* Orengine: instance picking, box selection and the per-frame selection   *)
(* state machine of State (src/src/state.rs), with the ray queries of      *)
(* src/src/camera.rs and the bounding box of src/src/models.rs.            *)
(*                                                                         *)
(* Numbers.  The program computes in f32.  The model computes in exact     *)
(* rational arithmetic extended with the IEEE-754 special values that the  *)
(* code can produce: a value is a pair <<n, d>> with d > 0 for the         *)
(* rational n/d, <<1, 0>> for +infinity,                                   *)
(* <<-1, 0>> for -infinity and <<0, 0>> for NaN.  Rounding is not          *)
(* modelled.  All scene coordinates are small integers, so every non-zero  *)
(* magnitude that is compared with f32::EPSILON is far above it and the    *)
(* epsilon tests reduce to tests against zero.                             *)
(*                                                                         *)
(* A ray direction is kept as the shortest integer vector of that          *)
(* direction instead of the unit vector; hit distances are therefore       *)
(* expressed in units of the length of that vector, the same unit for      *)
(* every instance tested against one ray (rotations preserve length).      *)
(***************************************************************************)
EXTENDS Integers, Sequences, FiniteSets, TLC

\* Option<T>: None is the empty tuple and Some(x) the one-element tuple
None == <<>>
Some(x) == <<x>>
IsSome(o) == o # <<>>
Unwrap(o) == o[1]

----------------------------------------------------------------------------
(* Integer helpers *)

Abs(x) == IF x < 0 THEN -x ELSE x

Sgn(x) == IF x < 0 THEN -1 ELSE IF x > 0 THEN 1 ELSE 0

RECURSIVE Gcd(_, _)
Gcd(a, b) == IF b = 0 THEN Abs(a) ELSE Gcd(b, a % Abs(b))

----------------------------------------------------------------------------
(* f32 values: rationals with +inf, -inf and NaN *)

PosInf == <<1, 0>>
NegInf == <<-1, 0>>
NaN == <<0, 0>>

IsNaN(a) == a[2] = 0 /\ a[1] = 0
IsInf(a) == a[2] = 0 /\ a[1] # 0
IsFinite(a) == a[2] > 0

\* the rational n/d, d # 0, in lowest terms with a positive denominator
Rat(n, d) ==
    LET g == Gcd(n, d)
    IN  <<(Sgn(d) * n) \div g, Abs(d) \div g>>

F(n) == <<n, 1>>

\* a < b as f32 comparison: false as soon as one side is NaN
Lt(a, b) ==
    IF IsNaN(a) \/ IsNaN(b) THEN FALSE
    ELSE IF IsInf(a) /\ IsInf(b) THEN a[1] < b[1]
    ELSE a[1] * b[2] < b[1] * a[2]

\* f32::min and f32::max: when one argument is NaN the other is returned
FMin(a, b) == IF IsNaN(a) THEN b ELSE IF IsNaN(b) THEN a ELSE IF Lt(b, a) THEN b ELSE a

FMax(a, b) == IF IsNaN(a) THEN b ELSE IF IsNaN(b) THEN a ELSE IF Lt(a, b) THEN b ELSE a

\* a <= b as f32 comparison
Le(a, b) ==
    IF IsNaN(a) \/ IsNaN(b) THEN FALSE ELSE ~Lt(b, a)

\* arithmetic on finite values
RAdd(a, b) == Rat(a[1] * b[2] + b[1] * a[2], a[2] * b[2])
RSub(a, b) == Rat(a[1] * b[2] - b[1] * a[2], a[2] * b[2])
RMul(a, b) == Rat(a[1] * b[1], a[2] * b[2])
\* a / b for b # 0
RDiv(a, b) == Rat(a[1] * b[2], a[2] * b[1])

\* (a - o) / k for an f32 a that may be infinite and finite integers o, k:
\* x/0 is +-inf for x # 0 and NaN for x = 0 (the sign of a zero divisor only
\* swaps the two slab parameters of an axis, which intersect_aabb then
\* orders with min and max)
SlabParam(a, o, k) ==
    IF IsNaN(a) THEN NaN
    ELSE IF IsInf(a) THEN (IF k < 0 THEN <<-a[1], 0>> ELSE a)
    ELSE LET n == a[1] - o * a[2]
         IN  IF k = 0 THEN <<Sgn(n), 0>> ELSE <<Sgn(k) * n, Abs(k) * a[2]>>

----------------------------------------------------------------------------
(* glam::Vec3 over the integers, glam::Quat as an exact rotation matrix *)

Add(a, b) == <<a[1] + b[1], a[2] + b[2], a[3] + b[3]>>
Sub(a, b) == <<a[1] - b[1], a[2] - b[2], a[3] - b[3]>>
Dot(a, b) == a[1] * b[1] + a[2] * b[2] + a[3] * b[3]
Cross(a, b) == <<a[2] * b[3] - a[3] * b[2], a[3] * b[1] - a[1] * b[3], a[1] * b[2] - a[2] * b[1]>>
Scale(k, a) == <<k * a[1], k * a[2], k * a[3]>>

\* Vec3::normalize up to the common unit: the shortest integer vector with
\* the direction of v
Normalize(v) ==
    LET g == Gcd(Gcd(v[1], v[2]), v[3])
    IN  IF g = 0 THEN v ELSE <<v[1] \div g, v[2] \div g, v[3] \div g>>

\* rotations are given by their matrix rows
QuatIdentity == <<(<<1, 0, 0>>), (<<0, 1, 0>>), (<<0, 0, 1>>)>>
QuatY90 == <<(<<0, 0, 1>>), (<<0, 1, 0>>), (<<-1, 0, 0>>)>>
QuatZ90 == <<(<<0, -1, 0>>), (<<1, 0, 0>>), (<<0, 0, 1>>)>>

\* Quat::inverse of a unit quaternion: the transposed matrix
QuatInverse(q) ==
    <<(<<q[1][1], q[2][1], q[3][1]>>), (<<q[1][2], q[2][2], q[3][2]>>), (<<q[1][3], q[2][3], q[3][3]>>)>>

\* Quat * Vec3
Rotate(q, v) == <<Dot(q[1], v), Dot(q[2], v), Dot(q[3], v)>>

----------------------------------------------------------------------------
(* Ray queries, src/src/camera.rs *)

\* Ray::intersect_aabb: slab method; min and max are triples of f32 values
intersect_aabb(origin, direction, min, max) ==
    LET t1 == SlabParam(min[1], origin[1], direction[1])
        t2 == SlabParam(max[1], origin[1], direction[1])
        t3 == SlabParam(min[2], origin[2], direction[2])
        t4 == SlabParam(max[2], origin[2], direction[2])
        t5 == SlabParam(min[3], origin[3], direction[3])
        t6 == SlabParam(max[3], origin[3], direction[3])
        tmin == FMax(FMax(FMin(t1, t2), FMin(t3, t4)), FMin(t5, t6))
        tmax == FMin(FMin(FMax(t1, t2), FMax(t3, t4)), FMax(t5, t6))
    IN  IF Lt(tmax, F(0)) \/ Lt(tmax, tmin) THEN None ELSE Some(FMax(tmin, F(0)))

\* intersect_triangle without the test of u + v
intersect_triangle_nosum(origin, direction, v0, v1, v2) ==
    LET edge1 == Sub(v1, v0)
        edge2 == Sub(v2, v0)
        h == Cross(direction, edge2)
        a == Dot(edge1, h)
        s == Sub(origin, v0)
        un == Sgn(a) * Dot(s, h)
        q == Cross(s, edge1)
        vn == Sgn(a) * Dot(direction, q)
        tn == Sgn(a) * Dot(edge2, q)
    IN  IF a = 0 THEN None
        ELSE IF un < 0 \/ un > Abs(a) THEN None
        ELSE IF vn < 0 THEN None
        ELSE IF tn > 0 THEN Some(Rat(tn, Abs(a)))
        ELSE None

\* Ray::intersect_triangle: Moeller-Trumbore.  With f = 1/a the tests on
\* u = f * (s . h), v = f * (direction . q) and t = f * (edge2 . q) are
\* made on the numerators multiplied by the sign of a.
intersect_triangle(origin, direction, v0, v1, v2) ==
    LET edge1 == Sub(v1, v0)
        edge2 == Sub(v2, v0)
        h == Cross(direction, edge2)
        a == Dot(edge1, h)
        s == Sub(origin, v0)
        un == Sgn(a) * Dot(s, h)
        q == Cross(s, edge1)
        vn == Sgn(a) * Dot(direction, q)
        tn == Sgn(a) * Dot(edge2, q)
    IN  IF a = 0 THEN None
        ELSE IF un < 0 \/ un > Abs(a) THEN None
        ELSE IF vn < 0 \/ un + vn > Abs(a) THEN None
        ELSE IF tn > 0 THEN Some(Rat(tn, Abs(a)))
        ELSE None

----------------------------------------------------------------------------
(* Geometry loader, src/src/models.rs *)

\* A Mesh is [vertices |-> sequence of positions, indices |-> sequence of
\* 0-based vertex numbers]; the vertex attributes other than the position
\* take no part in picking.

RECURSIVE AabbVertices(_, _, _)
\* the loop over the positions of one mesh: six independent updates per vertex
AabbVertices(vertices, k, box) ==
    IF k > Len(vertices) THEN box
    ELSE LET p == vertices[k]
             lo == [a \in 1..3 |-> IF Lt(F(p[a]), box.min[a]) THEN F(p[a]) ELSE box.min[a]]
             hi == [a \in 1..3 |-> IF Lt(box.max[a], F(p[a])) THEN F(p[a]) ELSE box.max[a]]
         IN  AabbVertices(vertices, k + 1, [min |-> lo, max |-> hi])

RECURSIVE AabbMeshes_each(_, _, _)
\* AabbMeshes with bounds that start again at every sub-mesh
AabbMeshes_each(meshes, m, box) ==
    IF m > Len(meshes) THEN box
    ELSE AabbMeshes_each(meshes, m + 1,
                         AabbVertices(meshes[m].vertices, 1,
                                      [min |-> <<PosInf, PosInf, PosInf>>,
                                       max |-> <<NegInf, NegInf, NegInf>>]))

RECURSIVE AabbMeshes(_, _, _)
\* the loop over the sub-meshes, which shares one pair of bounds
AabbMeshes(meshes, m, box) ==
    IF m > Len(meshes) THEN box
    ELSE AabbMeshes(meshes, m + 1, AabbVertices(meshes[m].vertices, 1, box))

\* the Aabb of the Model returned by load_model: the fold starts from
\* min = +inf, max = -inf
load_model_aabb(meshes) ==
    AabbMeshes(meshes, 1, [min |-> <<PosInf, PosInf, PosInf>>, max |-> <<NegInf, NegInf, NegInf>>])

----------------------------------------------------------------------------
(* Spatial query, State::get_hit_instance *)

\* An Instance is [position |-> Vec3, rotation |-> Quat].  Instance numbers
\* are 0-based as in the code: instance i is insts[i + 1].

RECURSIVE NarrowTriangles(_, _, _, _, _, _)
\* the loop over mesh.indices.chunks(3); a trailing chunk of fewer than
\* three indices does not match [i0, i1, i2] and is skipped
NarrowTriangles(origin, direction, mesh, k, i, best) ==
    IF 3 * k + 3 > Len(mesh.indices) THEN best
    ELSE LET v0 == mesh.vertices[mesh.indices[3 * k + 1] + 1]
             v1 == mesh.vertices[mesh.indices[3 * k + 2] + 1]
             v2 == mesh.vertices[mesh.indices[3 * k + 3] + 1]
             tri_dist == intersect_triangle(origin, direction, v0, v1, v2)
             next == IF IsSome(tri_dist) /\ Lt(Unwrap(tri_dist), best.closest_dist)
                     THEN [closest_dist |-> Unwrap(tri_dist), hit_instance |-> Some(i)]
                     ELSE best
         IN  NarrowTriangles(origin, direction, mesh, k + 1, i, next)

RECURSIVE NarrowMeshes(_, _, _, _, _, _)
\* the loop over self.cpu_meshes
NarrowMeshes(origin, direction, meshes, m, i, best) ==
    IF m > Len(meshes) THEN best
    ELSE NarrowMeshes(origin, direction, meshes, m + 1, i,
                      NarrowTriangles(origin, direction, meshes[m], 0, i, best))

\* the broad-phase test of one instance: Some(dist) when the local ray meets
\* the model's box
BroadPhase(local_origin, local_direction, aabb) ==
    intersect_aabb(local_origin, local_direction, aabb.min, aabb.max)

\* HitStep with the fallback of a loose selection: an instance whose box is
\* met and whose triangles are all missed counts as hit at the box distance
HitStep_loose(r, insts, meshes, aabb, i, best) ==
    LET instance == insts[i + 1]
        to_local == QuatInverse(instance.rotation)
        ray_origin_local == Rotate(to_local, Sub(r.origin, instance.position))
        ray_dir_local == Rotate(to_local, r.direction)
        dist == BroadPhase(ray_origin_local, ray_dir_local, aabb)
    IN  IF ~IsSome(dist) THEN best
        ELSE IF Lt(best.closest_dist, Unwrap(dist)) THEN best
        ELSE LET narrow == NarrowMeshes(ray_origin_local, ray_dir_local, meshes, 1, i, best)
             IN  IF narrow = best /\ Lt(Unwrap(dist), best.closest_dist)
                 THEN [closest_dist |-> Unwrap(dist), hit_instance |-> Some(i)]
                 ELSE narrow

\* the body of the loop over the instances for instance i
HitStep(r, insts, meshes, aabb, i, best) ==
    LET instance == insts[i + 1]
        to_local == QuatInverse(instance.rotation)
        ray_origin_local == Rotate(to_local, Sub(r.origin, instance.position))
        ray_dir_local == Rotate(to_local, r.direction)
        dist == BroadPhase(ray_origin_local, ray_dir_local, aabb)
    IN  IF ~IsSome(dist) THEN best
        ELSE IF Lt(best.closest_dist, Unwrap(dist)) THEN best
        ELSE NarrowMeshes(ray_origin_local, ray_dir_local, meshes, 1, i, best)

RECURSIVE HitLoop(_, _, _, _, _, _)
HitLoop(r, insts, meshes, aabb, i, best) ==
    IF i >= Len(insts) THEN best
    ELSE HitLoop(r, insts, meshes, aabb, i + 1, HitStep(r, insts, meshes, aabb, i, best))

\* State::get_hit_instance: Some(<<instance, distance>>) or None
get_hit_instance(r, insts, meshes, aabb) ==
    LET best == HitLoop(r, insts, meshes, aabb, 0, [closest_dist |-> PosInf, hit_instance |-> None])
    IN  IF IsSome(best.hit_instance)
        THEN Some(<<Unwrap(best.hit_instance), best.closest_dist>>)
        ELSE None

----------------------------------------------------------------------------
(* Camera, src/src/camera.rs *)

\* A Camera is [eye, target, up |-> Vec3, aspect |-> f32, cot_half_fovy |-> f32];
\* cot_half_fovy stands for the field fovy and holds 1 / tan(fovy / 2), the
\* only form in which perspective_rh uses the angle.  znear and zfar only
\* enter clip.z, which neither picking nor box selection reads.

\* the axes of Mat4::look_at_rh(eye, target, up): forward f, side s = f x up,
\* and u = s x f (the camera of the model looks along a coordinate axis, so
\* the normalised axes are integer vectors)
ViewAxes(cam) ==
    LET f == Normalize(Sub(cam.target, cam.eye))
        s0 == Normalize(Cross(f, cam.up))
    IN  [f |-> f, s |-> s0, u |-> Cross(s0, f)]

\* Camera::build_view_projection_matrix applied to the point (pos, 1): the
\* x, y and w components of proj * view * pos.  The view matrix gives
\* (s . rel, u . rel, -f . rel) for rel = pos - eye, and perspective_rh
\* scales x by cot/aspect, y by cot and sets w = -z.
view_proj_mul(cam, pos) ==
    LET ax == ViewAxes(cam)
        rel == Sub(pos, cam.eye)
    IN  [x |-> RMul(RDiv(cam.cot_half_fovy, cam.aspect), F(Dot(ax.s, rel))),
         y |-> RMul(cam.cot_half_fovy, F(Dot(ax.u, rel))),
         w |-> F(Dot(ax.f, rel))]

\* Camera::create_ray(screen_pos, screen_size).  The NDC point
\* (ndc_x, ndc_y, -1, 1) unprojects to eye + k * (ndc_x * aspect / cot * s +
\* ndc_y / cot * u + f) with k > 0, so the normalised direction is that of
\* the vector in parentheses; it is scaled here by the positive factor
\* cot * (denominators) to an integer vector before normalising.
create_ray(cam, screen_pos, screen_size) ==
    LET ndc_x == RSub(RMul(RDiv(F(screen_pos[1]), F(screen_size[1])), F(2)), F(1))
        ndc_y == RSub(F(1), RMul(RDiv(F(screen_pos[2]), F(screen_size[2])), F(2)))
        ax == ViewAxes(cam)
        cs == RDiv(RMul(ndc_x, cam.aspect), cam.cot_half_fovy)
        cu == RDiv(ndc_y, cam.cot_half_fovy)
        m == cs[2] * cu[2]
        world_dir == Add(Add(Scale(cs[1] * cu[2], ax.s), Scale(cu[1] * cs[2], ax.u)), Scale(m, ax.f))
    IN  [origin |-> cam.eye, direction |-> Normalize(world_dir)]

----------------------------------------------------------------------------
(* egui::Rect over integer points *)

\* Rect::from_two_pos
from_two_pos(a, b) ==
    [min |-> <<IF a[1] < b[1] THEN a[1] ELSE b[1], IF a[2] < b[2] THEN a[2] ELSE b[2]>>,
     max |-> <<IF a[1] < b[1] THEN b[1] ELSE a[1], IF a[2] < b[2] THEN b[2] ELSE a[2]>>]

width(r) == r.max[1] - r.min[1]
height(r) == r.max[2] - r.min[2]

\* Rect::contains for a point with f32 coordinates: both bounds inclusive
contains(r, p) ==
    /\ Le(F(r.min[1]), p[1]) /\ Le(p[1], F(r.max[1]))
    /\ Le(F(r.min[2]), p[2]) /\ Le(p[2], F(r.max[2]))

----------------------------------------------------------------------------
(* Box selection, State::perform_box_selection *)

Half == <<1, 2>>

\* the screen position computed for one instance position with clip.w > 0
ScreenPos(cam, pos, image_rect) ==
    LET clip == view_proj_mul(cam, pos)
        ndc_x == RDiv(clip.x, clip.w)
        ndc_y == RDiv(clip.y, clip.w)
    IN  <<RAdd(F(image_rect.min[1]), RMul(RMul(RAdd(ndc_x, F(1)), Half), F(width(image_rect)))),
          RAdd(F(image_rect.min[2]), RMul(RMul(RSub(F(1), ndc_y), Half), F(height(image_rect))))>>

\* the test that skips an instance: the point is behind the camera
BehindCamera(clip) == Le(clip.w, F(0))

RECURSIVE BoxLoop(_, _, _, _, _, _)
\* the loop over the instances, inserting into the set sel
BoxLoop(cam, insts, selection_rect, image_rect, i, sel) ==
    IF i >= Len(insts) THEN sel
    ELSE LET pos == insts[i + 1].position
             clip == view_proj_mul(cam, pos)
             next == IF BehindCamera(clip) THEN sel
                     ELSE IF contains(selection_rect, ScreenPos(cam, pos, image_rect))
                          THEN sel \cup {i}
                          ELSE sel
         IN  BoxLoop(cam, insts, selection_rect, image_rect, i + 1, next)

\* perform_box_selection without the clear
perform_box_selection_keep(cam, insts, selected, selection_rect, image_rect) ==
    BoxLoop(cam, insts, selection_rect, image_rect, 0, selected)

\* the new value of selected_instances: cleared first, then filled
perform_box_selection(cam, insts, selected, selection_rect, image_rect) ==
    BoxLoop(cam, insts, selection_rect, image_rect, 0, {})

----------------------------------------------------------------------------
(* The scene built by State::new *)

\* State::new places instance (x, z) of the grid at (3x, 0, 3z) minus the
\* displacement (5, 0, 5); the instance list is in row order (z outer, x inner)
\* the grid of State::new has NUM_INSTANCES_PER_ROW rows of as many cells
NUM_INSTANCES_PER_ROW == 10

\* the cells (x, z) of the grid, one instance each
GridCellsOfNew == (0..(NUM_INSTANCES_PER_ROW - 1)) \X (0..(NUM_INSTANCES_PER_ROW - 1))

GridPosition(x, z) == <<3 * x - 5, 0, 3 * z - 5>>

\* The model keeps a few cells of the 10 x 10 grid, in the order of the list,
\* each with an exact rotation in place of the 45 degree rotation of the code.
SceneCells ==
    <<[x |-> 1, z |-> 0, rotation |-> QuatIdentity],
      [x |-> 2, z |-> 0, rotation |-> QuatIdentity],
      [x |-> 1, z |-> 2, rotation |-> QuatIdentity],
      [x |-> 2, z |-> 2, rotation |-> QuatY90],
      [x |-> 2, z |-> 4, rotation |-> QuatIdentity]>>

GridInstances ==
    [k \in 1..Len(SceneCells) |->
        [position |-> GridPosition(SceneCells[k].x, SceneCells[k].z),
         rotation |-> SceneCells[k].rotation]]

\* a model of two sub-meshes, one triangle each: an upright quad
QuadVertices == <<(<<-1, 0, 0>>), (<<1, 0, 0>>), (<<1, 2, 0>>), (<<-1, 2, 0>>)>>

QuadModel ==
    <<[vertices |-> QuadVertices, indices |-> <<0, 1, 2>>, material_id |-> 0],
      [vertices |-> QuadVertices, indices |-> <<0, 2, 3>>, material_id |-> 0]>>

\* a model whose only mesh has vertices but fewer than three indices
NoTriangleModel == <<[vertices |-> QuadVertices, indices |-> <<0, 1>>, material_id |-> 0]>>

\* a model without meshes
EmptyModel == <<>>

\* the scenes of the frame specification: instance list and loaded meshes.
\* The meshes are whatever the model file holds; the instance list is the
\* grid, or empty as for a grid of no rows.
Scenes ==
    {[instances |-> GridInstances, meshes |-> QuadModel],
     [instances |-> <<>>, meshes |-> QuadModel],
     [instances |-> GridInstances, meshes |-> EmptyModel],
     [instances |-> GridInstances, meshes |-> NoTriangleModel]}

\* the Camera of State::new; aspect is config.width / config.height of a
\* square surface
InitCamera ==
    [eye |-> <<0, 1, 5>>, target |-> <<0, 1, 0>>, up |-> <<0, 1, 0>>,
     aspect |-> F(1), cot_half_fovy |-> F(2), shift |-> <<0, 0, 0>>]

----------------------------------------------------------------------------
(* The egui side: pointer input and the Response of the viewport image     *)

\* response.rect, the rectangle of the viewport image inside the window
ImageRect == [min |-> <<4, 2>>, max |-> <<24, 22>>]

\* the pointer positions of the model, in window coordinates, all of them
\* on the viewport image
PointerPositions ==
    {<<4, 2>>, <<10, 14>>, <<15, 9>>, <<16, 14>>, <<19, 17>>}

\* The primary-button gesture on the image, which senses click_and_drag, is
\* "up" or "drag".  A press that has not yet been decided to be a click or
\* a drag reports nothing and is not told apart from "up".  A press that
\* ends as a click never reports a drag; a drag may start and stop within
\* one frame.  The last gesture is the end of a drag by another button:
\* drag_stopped() is true for any button, drag_started_by and dragged_by
\* only for the primary one.
Gestures ==
    {[from |-> "up", to |-> "up", primary |-> TRUE,
      drag_started |-> FALSE, dragged |-> FALSE, drag_stopped |-> FALSE, clicked |-> FALSE],
     [from |-> "up", to |-> "up", primary |-> TRUE,
      drag_started |-> FALSE, dragged |-> FALSE, drag_stopped |-> FALSE, clicked |-> TRUE],
     [from |-> "up", to |-> "drag", primary |-> TRUE,
      drag_started |-> TRUE, dragged |-> TRUE, drag_stopped |-> FALSE, clicked |-> FALSE],
     [from |-> "up", to |-> "up", primary |-> TRUE,
      drag_started |-> TRUE, dragged |-> FALSE, drag_stopped |-> TRUE, clicked |-> FALSE],
     [from |-> "drag", to |-> "drag", primary |-> TRUE,
      drag_started |-> FALSE, dragged |-> TRUE, drag_stopped |-> FALSE, clicked |-> FALSE],
     [from |-> "drag", to |-> "up", primary |-> TRUE,
      drag_started |-> FALSE, dragged |-> FALSE, drag_stopped |-> TRUE, clicked |-> FALSE],
     [from |-> "up", to |-> "up", primary |-> FALSE,
      drag_started |-> FALSE, dragged |-> FALSE, drag_stopped |-> TRUE, clicked |-> FALSE]}

\* The Response read by the closure for gesture step g when egui's pointer
\* is at pos (None: the pointer has left the window) and the image is
\* (hov) or is not the hovered widget.  hover_pos() is the pointer position
\* of a hovered widget; interact_pointer_pos() is the pointer position while
\* the widget is clicked or dragged.  released_primary, which the closure
\* does not read, tells that the frame reports the release of the primary
\* button.
Response(g, pos, hov) ==
    [hovered |-> hov,
     hover_pos |-> IF hov THEN pos ELSE None,
     interact_pointer_pos |-> IF g.drag_started \/ g.dragged \/ g.drag_stopped \/ g.clicked
                              THEN pos ELSE None,
     drag_started |-> g.drag_started,
     dragged |-> g.dragged,
     drag_stopped |-> g.drag_stopped,
     clicked |-> g.clicked,
     released_primary |-> g.primary /\ (g.drag_stopped \/ g.clicked)]

\* the value of the history variable response when the last step was not a frame
NoResponse ==
    [hovered |-> FALSE, hover_pos |-> None, interact_pointer_pos |-> None,
     drag_started |-> FALSE, dragged |-> FALSE, drag_stopped |-> FALSE, clicked |-> FALSE,
     released_primary |-> FALSE]

----------------------------------------------------------------------------
(* The model file as tobj reads it, and load_model                         *)

Ok(v) == <<"Ok", v>>
Err(e) == <<"Err", e>>
IsOk(r) == r[1] = "Ok"

\* the texture files under assets/ that Texture::from_image can decode
GoodTextures == {"good.png"}

\* tobj::Material: diffuse_texture is an Option
TobjMaterials ==
    {[name |-> "plain", diffuse_texture |-> None],
     [name |-> "good", diffuse_texture |-> Some("good.png")],
     [name |-> "bad", diffuse_texture |-> Some("bad.png")]}

\* tobj::Mesh of a triangulated model: positions is the flat list of
\* coordinates, three per vertex
TobjShapes ==
    {[positions |-> <<-1, 0, 0, 1, 0, 0, 1, 2, 0, -1, 2, 0>>, indices |-> <<0, 1, 2, 0, 2, 3>>],
     [positions |-> <<2, -1, 3, 0, 0, 0, -3, 1, 1>>, indices |-> <<0, 1, 2>>],
     [positions |-> <<>>, indices |-> <<>>]}

MaxMeshes == 2
MaxMaterials == 2

\* what tobj::load_obj returns for the files of the model: None when the
\* file cannot be opened, else the models and the result of the material
\* library.  A mesh names no material (None) or one of the materials read:
\* tobj resolves usemtl against the library it has loaded.
Files ==
    {None} \cup
    {Some([models |-> ms, materials |-> mats]) :
        ms \in UNION {[1..n -> {[positions |-> sh.positions, indices |-> sh.indices,
                                 material_id |-> id] :
                                    sh \in TobjShapes,
                                    id \in {None} \cup {Some(i) : i \in 0..(MaxMaterials - 1)}}]
                      : n \in 0..MaxMeshes},
        mats \in {Err("MaterialLibrary")} \cup
                 {Ok(l) : l \in UNION {[1..n -> TobjMaterials] : n \in 0..MaxMaterials}}}

\* the material ids of a file lie inside its library
WellFormed(file) ==
    IsSome(file) =>
        \A k \in 1..Len(Unwrap(file).models) :
            LET id == Unwrap(file).models[k].material_id
            IN  IsSome(id) =>
                    /\ IsOk(Unwrap(file).materials)
                    /\ Unwrap(id) < Len(Unwrap(file).materials[2])

\* the `?` turned into an Io error
load_obj_error_io(e) == "Io"

\* the `?` on a tobj::LoadError: From gives OrengineError::Tobj
load_obj_error(e) == "Tobj"

\* the Vertex list built from the flat positions of a tobj mesh
MeshVertices(positions) ==
    [i \in 1..(Len(positions) \div 3) |->
        <<positions[3 * (i - 1) + 1], positions[3 * (i - 1) + 2], positions[3 * (i - 1) + 3]>>]

\* the material_id of a Mesh
MeshMaterialId(id) == IF IsSome(id) THEN Unwrap(id) ELSE 0

\* the Mesh made of a tobj model
LoadMesh(m) ==
    [vertices |-> MeshVertices(m.positions), indices |-> m.indices,
     material_id |-> MeshMaterialId(m.material_id)]

\* the Material made of a tobj material
LoadMaterial(mat) ==
    [name |-> mat.name,
     diffuse_texture |-> IF IsSome(mat.diffuse_texture) THEN Unwrap(mat.diffuse_texture) ELSE ""]

\* load_model: Err of an OrengineError, or Ok of the Model
load_model(file) ==
    IF ~IsSome(file) THEN Err(load_obj_error("OpenFileFailed"))
    ELSE IF ~IsOk(Unwrap(file).materials) THEN Err(load_obj_error(Unwrap(file).materials[2]))
    ELSE LET models == Unwrap(file).models
             mats == Unwrap(file).materials[2]
             meshes_ == [k \in 1..Len(models) |-> LoadMesh(models[k])]
         IN  Ok([meshes |-> meshes_,
                 materials |-> [k \in 1..Len(mats) |-> LoadMaterial(mats[k])],
                 aabb |-> load_model_aabb(meshes_)])

\* MaterialTexture without the test for an empty texture name: the path
\* assets/ is given to Texture::from_image, which fails on it
MaterialTexture_nocheck(mat) ==
    IF mat.diffuse_texture \in GoodTextures
    THEN <<"image", mat.diffuse_texture>>
    ELSE <<"color", <<255, 0, 255, 255>>>>

\* the texture of a material in State::new: the decoded image, magenta when
\* it cannot be loaded, white when the material names no texture
MaterialTexture(mat) ==
    IF mat.diffuse_texture # ""
    THEN IF mat.diffuse_texture \in GoodTextures
         THEN <<"image", mat.diffuse_texture>>
         ELSE <<"color", <<255, 0, 255, 255>>>>
    ELSE <<"color", <<255, 255, 255, 255>>>>

\* State.materials: one MaterialRenderData per material of the model
RenderMaterials(mats) ==
    [k \in 1..Len(mats) |-> [label |-> mats[k].name, texture |-> MaterialTexture(mats[k])]]

\* State.meshes: one MeshRenderData per mesh of the model
RenderMeshes(ms) ==
    [k \in 1..Len(ms) |-> [num_elements |-> Len(ms[k].indices), material_id |-> ms[k].material_id]]

\* the materials of the scenes: the one untextured material their meshes name
SceneMaterials(ms) ==
    IF ms = <<>> THEN <<>> ELSE RenderMaterials(<<[name |-> "plain", diffuse_texture |-> ""]>>)

----------------------------------------------------------------------------
(* State *)

VARIABLES
    instances,              \* State.instances
    cpu_meshes,             \* State.cpu_meshes
    model_aabb,             \* State.model_aabb
    camera,                 \* State.camera
    selected_instances,     \* State.selected_instances
    selection_drag_start,   \* State.selection_drag_start
    hovered_instance,       \* State.hovered_instance
    is_scene_hovered,       \* State.is_scene_hovered
    pointer_pos,            \* State.gui: the pointer position egui has been given
    pointer,                \* the gesture in progress on the viewport image
    response,               \* the Response read, when the last step was a frame
    hover_request,          \* the locals of that frame after the UI step
    click_request,
    box_selection_request,
    painted_rect,           \* the drag rectangle stroked in that frame
    before,                 \* the selection fields as they were before the last step
    ray,                    \* the ray of the hit test of the last step
    tested,                 \* whether the last step ran get_hit_instance
    hit,                    \* what it returned
    app,                    \* "start" before State::new, then "running", "failed" or "panicked"
    model_file,             \* the file at model_path, when the last step was State::new
    loaded,                 \* what load_model returned in that step
    new_error,              \* the error State::new returned
    state_meshes,           \* State.meshes
    materials,              \* State.materials
    draws,                  \* the draw calls of the 3D pass, when the last step was a frame
    light_uniform,          \* State.light_uniform
    light_buffer,           \* the contents of State.light_buffer on the GPU
    inspector_input,        \* State.gui: the input on the inspector panel egui has been given
    light_frame,            \* the light temporaries of the frame, when the last step was one
    queue_ops,              \* the queue operations of that frame, in order
    size,                   \* State.size
    config,                 \* State.config: width and height
    surface_config,         \* the configuration the surface was last configured with
    render_target,          \* State.render_target
    depth_texture,          \* State.depth_texture
    attachments,            \* the attachments of the 3D pass, when the last step was a frame
    last_call,              \* the handler that made the last step, with what it was given
    input_handler,          \* State.input_handler
    window_cursor,          \* the cursor grab and visibility set on the window
    look_mode,              \* a right-button press over the viewport has not been released yet
    held_keys,              \* the keys whose last keyboard event given to input was a press
    render_result,          \* what State::render returned, when the last step was a render
    event_loop,             \* the example program: its State, its window and its event loop
    probe                   \* one function of camera.rs called on its own: arguments and result

engine_vars ==
    <<instances, cpu_meshes, model_aabb, camera, selected_instances, selection_drag_start,
      hovered_instance, is_scene_hovered, pointer_pos, pointer, response, hover_request,
      click_request, box_selection_request, painted_rect, before, ray, tested, hit,
      app, model_file, loaded, new_error, state_meshes, materials, draws,
      light_uniform, light_buffer, inspector_input, light_frame, queue_ops,
      size, config, surface_config, render_target, depth_texture, attachments, last_call,
      input_handler, window_cursor, look_mode, held_keys, render_result>>

vars == <<engine_vars, event_loop, probe>>

\* the fields that only some handlers touch
light_vars == <<light_uniform, light_buffer, inspector_input>>
surface_vars == <<size, config, surface_config, render_target, depth_texture>>
input_vars == <<input_handler, window_cursor, look_mode, held_keys>>
rest_vars == <<light_vars, surface_vars, input_vars>>

setup_vars == <<app, model_file, loaded, new_error, state_meshes, materials>>

scene_vars == <<instances, cpu_meshes, model_aabb, camera>>

selection_vars == <<selected_instances, selection_drag_start, hovered_instance, is_scene_hovered>>

\* last_call after a step of handler h with argument arg: the scene, the
\* surface fields, the input handler, the light fields and the cursor are
\* recorded as they were before the step
Call(h, arg) ==
    [handler |-> h, arg |-> arg, scene |-> scene_vars, surface |-> surface_vars,
     input |-> input_handler, light |-> light_vars, cursor |-> window_cursor]

\* the selection fields, as recorded in before
SelectionFields ==
    [selected |-> selected_instances, drag_start |-> selection_drag_start,
     hovered |-> hovered_instance, scene_hovered |-> is_scene_hovered]

\* the history variables as they are when the last step was not a frame
NoFrame(resp, hov_req, click_req, box_req, painted, r, t, h) ==
    /\ resp = NoResponse
    /\ hov_req = None
    /\ click_req = FALSE
    /\ box_req = None
    /\ painted = None
    /\ r = None
    /\ t = FALSE
    /\ h = None

\* the history of the render pass when the last step was not a frame
NothingRendered ==
    /\ draws = <<>>
    /\ attachments = None
    /\ light_frame = None
    /\ queue_ops = <<>>
    /\ render_result = None

\* a step that encodes no pass and submits nothing
NoPass ==
    /\ draws' = <<>>
    /\ attachments' = None
    /\ light_frame' = None
    /\ queue_ops' = <<>>

\* a step that is not a render, or a render that returns nothing
NotRendered ==
    /\ NoPass
    /\ render_result' = None

\* the LightUniform of State::new
InitLight == [position |-> <<2, 2, 2>>, color |-> <<1, 0, 0>>]

\* window.inner_size() when State::new runs
InitSize == <<40, 40>>

\* SurfaceConfiguration: the fields that depend on the size
Config(sz) == [width |-> sz[1], height |-> sz[2]]

\* Texture::create_render_target(device, config, label): a colour texture
\* of the size of the surface configuration
create_render_target(cfg) == [kind |-> "color", width |-> cfg.width, height |-> cfg.height]

\* Texture::create_depth_texture(device, config, label): a depth texture of
\* the size of the surface configuration
create_depth_texture(cfg) == [kind |-> "depth", width |-> cfg.width, height |-> cfg.height]

\* CameraController::new(speed).  yaw is held as its difference from the
\* initial -90 degrees and pitch as it is, both in milliradians.
NewCameraController ==
    [is_forward_pressed |-> FALSE, is_backward_pressed |-> FALSE, is_left_pressed |-> FALSE,
     is_right_pressed |-> FALSE, is_up_pressed |-> FALSE, is_down_pressed |-> FALSE,
     yaw |-> 0, pitch |-> 0]

\* InputHandler::new(camera_speed)
NewInputHandler ==
    [camera_controller |-> NewCameraController, right_mouse_pressed |-> FALSE,
     is_scene_focused |-> FALSE]

\* the cursor of a new window
InitCursor == [grab |-> "None", visible |-> TRUE]

\* the fields State::new sets apart from the scene and the selection
\* wgpu::SurfaceError, the error of Surface::get_current_texture
SurfaceErrors == {"Timeout", "Outdated", "Lost", "OutOfMemory"}

\* what the render of the example returns
RenderResults == {"Ok"} \cup SurfaceErrors

\* The example program after State::new, before event_loop.run.  exiting is
\* whether target.exit() was called, redraw_requested whether a redraw asked
\* of the window is still to be delivered, frames the number of renders so
\* far, result what the last of them returned and previous what the one
\* before it had returned.  The other fields tell of the last step of the
\* loop: rendered is whether it was a render, configured whether it
\* configured the surface, logged whether it printed an error, before the
\* size and configuration it began with.
NewLoop ==
    [exiting |-> FALSE, redraw_requested |-> FALSE,
     size |-> InitSize, config |-> Config(InitSize), surface_config |-> Config(InitSize),
     frames |-> 0, result |-> None, previous |-> None,
     rendered |-> FALSE, configured |-> FALSE, logged |-> FALSE,
     before |-> <<InitSize, Config(InitSize)>>]

\* no function is called on its own
NoProbe == [fn |-> "none"]

InitRest ==
    /\ light_uniform = InitLight
    /\ light_buffer = InitLight
    /\ inspector_input = None
    /\ size = InitSize
    /\ config = Config(InitSize)
    /\ surface_config = Config(InitSize)
    /\ render_target = create_render_target(Config(InitSize))
    /\ depth_texture = create_depth_texture(Config(InitSize))
    /\ input_handler = NewInputHandler
    /\ window_cursor = InitCursor
    /\ look_mode = FALSE
    /\ held_keys = {}
    /\ event_loop = NewLoop

\* the fields State::new sets apart from the scene
InitSelection ==
    /\ selected_instances = {}
    /\ selection_drag_start = None
    /\ hovered_instance = None
    /\ is_scene_hovered = FALSE

\* State after State::new
InitState ==
    /\ \E sc \in Scenes :
          /\ instances = sc.instances
          /\ cpu_meshes = sc.meshes
          /\ model_aabb = load_model_aabb(sc.meshes)
          /\ state_meshes = RenderMeshes(sc.meshes)
          /\ materials = SceneMaterials(sc.meshes)
    /\ app = "running"
    /\ model_file = None
    /\ loaded = None
    /\ new_error = None
    /\ camera = InitCamera
    /\ InitSelection
    /\ pointer_pos = None
    /\ pointer = "up"
    /\ before = SelectionFields
    /\ NoFrame(response, hover_request, click_request, box_selection_request, painted_rect,
               ray, tested, hit)
    /\ NothingRendered
    /\ InitRest
    /\ last_call = Call("new", None)

\* State::new has returned; no function is called on its own
Init ==
    /\ InitState
    /\ probe = NoProbe

----------------------------------------------------------------------------
(* State::input for the pointer events egui consumes *)

\* WindowEvent::CursorMoved (pos in PointerPositions) or CursorLeft (None):
\* gui.handle_event records the pointer position; process_input ignores both
InputCursor ==
    \E pos \in {Some(p) : p \in PointerPositions} \cup {None} :
        /\ app = "running"
        /\ pos # pointer_pos
        /\ pointer_pos' = pos
        /\ last_call' = Call("input", pos)
        /\ before' = SelectionFields
        /\ NoFrame(response', hover_request', click_request', box_selection_request',
                   painted_rect', ray', tested', hit')
        /\ NotRendered
        /\ model_file' = None
        /\ loaded' = None
        /\ UNCHANGED <<scene_vars, selection_vars, pointer, app, new_error, state_meshes, materials,
                       rest_vars, event_loop, probe>>

\* the edits of the model on the inspector panel
LightEdits ==
    {[widget |-> "X", value |-> -10], [widget |-> "X", value |-> 2],
     [widget |-> "Y", value |-> 10], [widget |-> "Color", value |-> <<0, 1, 0>>]}

\* Window events on the inspector panel (a slider dragged, a colour picked):
\* gui.handle_event queues them for the next UI step; process_input does
\* nothing with them
InputInspector ==
    \E e \in LightEdits :
        /\ app = "running"
        /\ inspector_input = None
        /\ inspector_input' = Some(e)
        /\ last_call' = Call("input", e)
        /\ before' = SelectionFields
        /\ model_file' = None
        /\ loaded' = None
        /\ NoFrame(response', hover_request', click_request', box_selection_request',
                   painted_rect', ray', tested', hit')
        /\ NotRendered
        /\ UNCHANGED <<scene_vars, selection_vars, pointer_pos, pointer, app, new_error,
                       state_meshes, materials, light_uniform, light_buffer, surface_vars,
                       input_vars, event_loop, probe>>

----------------------------------------------------------------------------
(* InputHandler and CameraController, src/src/input.rs, src/src/camera.rs *)

\* mouse_sensitivity and the pitch limit of process_mouse, in milliradians
MouseSensitivity == 3
PitchLimit == 1540

Clamp(x, lo, hi) == IF x < lo THEN lo ELSE IF x > hi THEN hi ELSE x

\* process_mouse without the clamp
process_mouse_noclamp(ctrl, dx, dy) ==
    [ctrl EXCEPT !.yaw = ctrl.yaw + dx * MouseSensitivity,
                 !.pitch = ctrl.pitch - dy * MouseSensitivity]

\* CameraController::process_mouse(mouse_dx, mouse_dy)
process_mouse(ctrl, dx, dy) ==
    [ctrl EXCEPT !.yaw = ctrl.yaw + dx * MouseSensitivity,
                 !.pitch = Clamp(ctrl.pitch - dy * MouseSensitivity, -PitchLimit, PitchLimit)]

\* the keys of the model: two movement keys and a key process_keyboard
\* does not know
Keys == {"KeyW", "KeyD", "Escape"}

\* CameraController::process_keyboard(keycode, state): the controller after
\* it and the boolean it returns
process_keyboard(ctrl, keycode, is_pressed) ==
    CASE keycode \in {"KeyW", "ArrowUp"} -> <<[ctrl EXCEPT !.is_forward_pressed = is_pressed], TRUE>>
      [] keycode \in {"KeyA", "ArrowLeft"} -> <<[ctrl EXCEPT !.is_left_pressed = is_pressed], TRUE>>
      [] keycode \in {"KeyS", "ArrowDown"} -> <<[ctrl EXCEPT !.is_backward_pressed = is_pressed], TRUE>>
      [] keycode \in {"KeyD", "ArrowRight"} -> <<[ctrl EXCEPT !.is_right_pressed = is_pressed], TRUE>>
      [] keycode = "KeyQ" -> <<[ctrl EXCEPT !.is_up_pressed = is_pressed], TRUE>>
      [] keycode = "KeyE" -> <<[ctrl EXCEPT !.is_down_pressed = is_pressed], TRUE>>
      [] OTHER -> <<ctrl, FALSE>>

\* the steps of handlers other than State::new, render and resize share
\* this: the frame history is reset and the fields below stay
InputStep ==
    /\ app = "running"
    /\ before' = SelectionFields
    /\ model_file' = None
    /\ loaded' = None
    /\ NoFrame(response', hover_request', click_request', box_selection_request',
               painted_rect', ray', tested', hit')
    /\ NotRendered
    /\ UNCHANGED <<instances, cpu_meshes, model_aabb, selection_vars, pointer_pos, pointer, app,
                   new_error, state_meshes, materials, light_vars, surface_vars, event_loop, probe>>

\* State::input for WindowEvent::KeyboardInput: egui_consumed is what
\* gui.handle_event returns
KeyboardInput ==
    \E keycode \in Keys, is_pressed \in BOOLEAN, egui_consumed \in BOOLEAN :
        /\ InputStep
        /\ last_call' = Call("input", <<"KeyboardInput", keycode, is_pressed, egui_consumed>>)
        /\ input_handler' =
              IF input_handler.is_scene_focused /\ ~egui_consumed
              THEN [input_handler EXCEPT !.camera_controller =
                       process_keyboard(input_handler.camera_controller, keycode, is_pressed)[1]]
              ELSE input_handler
        /\ held_keys' = IF is_pressed THEN held_keys \cup {keycode} ELSE held_keys \ {keycode}
        /\ UNCHANGED <<camera, window_cursor, look_mode>>

\* CursorAfterPress that does not look at is_scene_hovered
CursorAfterPress_anywhere(cursor, hovered, grab_ok) ==
    [grab |-> IF grab_ok THEN "Confined" ELSE cursor.grab, visible |-> FALSE]

\* the cursor after a right-button press.  set_cursor_grab(Confined) fails
\* on the platforms that cannot confine the cursor, and its result is
\* dropped: grab_ok is whether the window takes the grab mode.
CursorAfterPress(cursor, hovered, grab_ok) ==
    IF hovered
    THEN [grab |-> IF grab_ok THEN "Confined" ELSE cursor.grab, visible |-> FALSE]
    ELSE cursor

\* the cursor after a right-button release: giving up a grab does not fail
CursorAfterRelease(cursor) == [grab |-> "None", visible |-> TRUE]

\* State::input for WindowEvent::MouseInput
MouseInput ==
    \E button \in {"Right", "Left"}, is_pressed \in BOOLEAN, egui_consumed \in BOOLEAN,
       grab_ok \in BOOLEAN :
        /\ InputStep
        /\ last_call' = Call("input", <<"MouseInput", button, is_pressed, egui_consumed>>)
        /\ IF button = "Right"
           THEN IF is_pressed
                THEN IF is_scene_hovered
                     THEN /\ input_handler' = [input_handler EXCEPT !.right_mouse_pressed = TRUE,
                                                                    !.is_scene_focused = TRUE]
                          /\ look_mode' = TRUE
                     ELSE /\ input_handler' = [input_handler EXCEPT !.right_mouse_pressed = TRUE]
                          /\ look_mode' = look_mode
                ELSE /\ input_handler' = [input_handler EXCEPT !.right_mouse_pressed = FALSE]
                     /\ look_mode' = FALSE
           ELSE /\ input_handler' =
                      IF ~is_pressed THEN input_handler
                      ELSE IF is_scene_hovered
                      THEN [input_handler EXCEPT !.is_scene_focused = TRUE]
                      ELSE IF egui_consumed
                      THEN [input_handler EXCEPT !.is_scene_focused = FALSE]
                      ELSE input_handler
                /\ UNCHANGED look_mode
        /\ window_cursor' =
              IF button # "Right" THEN window_cursor
              ELSE IF is_pressed THEN CursorAfterPress(window_cursor, is_scene_hovered, grab_ok)
              ELSE CursorAfterRelease(window_cursor)
        /\ UNCHANGED <<camera, held_keys>>

\* the pointer motions of the model, in pixels
MouseDeltas == {<<100, 600>>, <<-100, -600>>}

\* the yaw differences the model follows
MaxYaw == 300

\* State::handle_mouse_motion(delta)
MouseMotion ==
    \E delta \in MouseDeltas :
        /\ InputStep
        /\ last_call' = Call("handle_mouse_motion", delta)
        /\ input_handler' =
              IF input_handler.right_mouse_pressed
              THEN [input_handler EXCEPT !.camera_controller =
                       process_mouse(input_handler.camera_controller, delta[1], delta[2])]
              ELSE input_handler
        /\ Abs(input_handler'.camera_controller.yaw) <= MaxYaw
        /\ UNCHANGED <<camera, window_cursor, look_mode, held_keys>>

\* eye and target moved by one step of length speed along dir (k = 1) or
\* against it (k = -1) when the key is held.  speed, the argument of
\* InputHandler::new in State::new, is 0.01: the steps are counted in the
\* field shift of the camera, whose eye and target are the points
\* eye + 0.01 * shift and target + 0.01 * shift.
Moved(cam, pressed, k, dir) ==
    IF pressed THEN [cam EXCEPT !.shift = Add(cam.shift, Scale(k, dir))] ELSE cam

\* (cos yaw cos pitch, sin pitch, sin yaw cos pitch), normalised.  The model
\* runs update_camera in the direction of CameraController::new only, where
\* sine and cosine are taken as exact.
Forward(yaw, pitch) ==
    CASE yaw = 0 /\ pitch = 0 -> <<0, 0, -1>>

\* CameraController::update_camera(camera)
update_camera(ctrl, cam) ==
    LET forward == Forward(ctrl.yaw, ctrl.pitch)
        forward_norm == Normalize(forward)
        right_norm == Normalize(Cross(forward_norm, cam.up))
        y == <<0, 1, 0>>
        c0 == [cam EXCEPT !.target = Add(cam.eye, forward)]
        c1 == Moved(c0, ctrl.is_forward_pressed, 1, forward_norm)
        c2 == Moved(c1, ctrl.is_backward_pressed, -1, forward_norm)
        c3 == Moved(c2, ctrl.is_right_pressed, 1, right_norm)
        c4 == Moved(c3, ctrl.is_left_pressed, -1, right_norm)
        c5 == Moved(c4, ctrl.is_up_pressed, -1, y)
    IN  Moved(c5, ctrl.is_down_pressed, 1, y)

\* the steps of length speed the model follows the camera for, along each
\* axis
MaxShift == 2

\* State::update
Update ==
    /\ InputStep
    /\ last_call' = Call("update", None)
    /\ camera' = update_camera(input_handler.camera_controller, camera)
    /\ \A i \in 1..3 : Abs(camera'.shift[i]) <= MaxShift
    /\ UNCHANGED input_vars

----------------------------------------------------------------------------
(* State::resize *)

\* the sizes the window reports: WindowEvent::Resized
WindowSizes == {<<40, 40>>, <<60, 40>>, <<40, 60>>, <<0, 0>>, <<0, 40>>, <<60, 0>>}

\* DepthAfterResize that keeps the depth texture
DepthAfterResize_stale(cfg, old) == old

\* depth_texture after a resize to a positive size
DepthAfterResize(cfg, old) == create_depth_texture(cfg)

\* CameraAfterResize with the aspect ratio taken from the new configuration
CameraAfterResize_aspect(cam, cfg) == [cam EXCEPT !.aspect = Rat(cfg.width, cfg.height)]

\* the camera after a resize to a positive size: resize does not touch it
CameraAfterResize(cam, cfg) == cam

\* State::resize(new_size)
Resize ==
    \E new_size \in WindowSizes :
        /\ app = "running"
        /\ last_call' = Call("resize", new_size)
        /\ IF new_size[1] > 0 /\ new_size[2] > 0
           THEN /\ size' = new_size
                /\ config' = [config EXCEPT !.width = new_size[1], !.height = new_size[2]]
                /\ surface_config' = config'
                /\ render_target' = create_render_target(config')
                /\ depth_texture' = DepthAfterResize(config', depth_texture)
                /\ camera' = CameraAfterResize(camera, config')
           ELSE UNCHANGED <<surface_vars, camera>>
        /\ before' = SelectionFields
        /\ model_file' = None
        /\ loaded' = None
        /\ NoFrame(response', hover_request', click_request', box_selection_request',
                   painted_rect', ray', tested', hit')
        /\ NotRendered
        /\ UNCHANGED <<instances, cpu_meshes, model_aabb, selection_vars, pointer_pos, pointer,
                       app, new_error, state_meshes, materials, light_vars, input_vars,
                       event_loop, probe>>

----------------------------------------------------------------------------
(* State::render: the UI closure and the selection update after it *)

DragThreshold == 5

\* drag_start after "Handle Drag Start"
DragStartAfterStart(resp, drag_start) ==
    IF resp.drag_started THEN resp.interact_pointer_pos ELSE drag_start

\* the rectangle stroked by "Handle Dragging"
PaintedRect(resp, drag_start) ==
    IF IsSome(drag_start) /\ resp.dragged /\ IsSome(resp.interact_pointer_pos)
    THEN Some(from_two_pos(Unwrap(drag_start), Unwrap(resp.interact_pointer_pos)))
    ELSE None

\* the size test of "Handle Drag End"
DraggedEnough(rect) == width(rect) > DragThreshold \/ height(rect) > DragThreshold

\* box_selection_request after "Handle Drag End"
BoxSelectionRequest(resp, drag_start) ==
    IF /\ resp.drag_stopped
       /\ IsSome(drag_start)
       /\ IsSome(resp.interact_pointer_pos)
       /\ DraggedEnough(from_two_pos(Unwrap(drag_start), Unwrap(resp.interact_pointer_pos)))
    THEN Some(<<from_two_pos(Unwrap(drag_start), Unwrap(resp.interact_pointer_pos)), ImageRect>>)
    ELSE None

\* DragStartAfterStop with the reset moved into the innermost if let
DragStartAfterStop_inner(resp, drag_start) ==
    IF resp.drag_stopped /\ IsSome(drag_start) /\ IsSome(resp.interact_pointer_pos)
    THEN None ELSE drag_start

\* drag_start after "Handle Drag End"
DragStartAfterStop(resp, drag_start) ==
    IF resp.drag_stopped THEN None ELSE drag_start

\* hover_request after "Handle hover"
HoverRequest(resp) ==
    IF resp.hovered /\ IsSome(resp.hover_pos) THEN Some(<<Unwrap(resp.hover_pos), ImageRect>>) ELSE None

\* the ray built from a hover request
HoverRay(cam, req) ==
    LET pos == req[1]
        rect == req[2]
    IN  create_ray(cam, <<pos[1] - rect.min[1], pos[2] - rect.min[2]>>, <<width(rect), height(rect)>>)

\* HoveredAfter without the reset on a miss
HoveredAfter_sticky(hovered, h) ==
    IF IsSome(h) THEN Some(Unwrap(h)[1]) ELSE hovered

\* hovered_instance after the hit test
HoveredAfter(hovered, h) ==
    IF IsSome(h) THEN Some(Unwrap(h)[1]) ELSE None

\* SelectedAfterClick without the clear: the hit instance is added
SelectedAfterClick_add(selected, h) ==
    IF IsSome(h) THEN selected \cup {Unwrap(h)[1]} ELSE selected

\* SelectedAfterClick as a toggle of the hit instance
SelectedAfterClick_toggle(selected, h) ==
    IF ~IsSome(h) THEN {}
    ELSE IF Unwrap(h)[1] \in selected THEN selected \ {Unwrap(h)[1]}
    ELSE {Unwrap(h)[1]}

\* selected_instances after the hit test of a frame with click_request
SelectedAfterClick(selected, h) ==
    IF IsSome(h) THEN {Unwrap(h)[1]} ELSE {}

\* SelectedWithoutRequest of a write-back that clears the selection on
\* every click, also one reported without a hover position
SelectedWithoutRequest_cleared(selected, clicked) == IF clicked THEN {} ELSE selected

\* selected_instances after a frame without hover_request: click_request
\* is read only inside `if let Some(..) = hover_request`
SelectedWithoutRequest(selected, clicked) == selected

\* One draw_indexed call with the pipeline and the texture bind group set
\* when it is issued: mesh is the number of the mesh whose buffers are
\* bound, first..last the instance range
DrawIndexed(pipeline, bind_group, ms, m, first, last) ==
    [pipeline |-> pipeline, bind_group |-> bind_group, mesh |-> m - 1,
     num_elements |-> ms[m].num_elements, first |-> first, last |-> last]

\* A pass is a set of runs; the calls of a run are issued in order, and the
\* runs of the selection overlay in the iteration order of the HashSet,
\* which is not specified.

\* the opaque pass: each mesh over all instances
OpaquePass(ms, insts) ==
    [pass |-> "opaque",
     runs |-> {[m \in 1..Len(ms) |->
                   DrawIndexed("render", <<"material", ms[m].material_id>>, ms, m, 0, Len(insts))]}]

\* the selection overlay: each selected instance, mesh by mesh
SelectionOverlay(ms, selected) ==
    IF selected # {}
    THEN <<[pass |-> "selection",
            runs |-> {[m \in 1..Len(ms) |-> DrawIndexed("selection", "selection", ms, m, i, i + 1)] :
                         i \in selected}]>>
    ELSE <<>>

\* HoverOverlay without the test for a selected instance
HoverOverlay_always(ms, selected, hovered) ==
    IF IsSome(hovered)
    THEN <<[pass |-> "hover",
            runs |-> {[m \in 1..Len(ms) |->
                          DrawIndexed("selection", "hover", ms, m, Unwrap(hovered), Unwrap(hovered) + 1)]}]>>
    ELSE <<>>

\* the hover overlay
HoverOverlay(ms, selected, hovered) ==
    IF IsSome(hovered) /\ Unwrap(hovered) \notin selected
    THEN <<[pass |-> "hover",
            runs |-> {[m \in 1..Len(ms) |->
                          DrawIndexed("selection", "hover", ms, m, Unwrap(hovered), Unwrap(hovered) + 1)]}]>>
    ELSE <<>>

\* the draw calls of the 3D pass of a frame
DrawCalls(ms, insts, selected, hovered) ==
    <<OpaquePass(ms, insts)>> \o SelectionOverlay(ms, selected) \o HoverOverlay(ms, selected, hovered)

\* The inspector panel, given the light temporaries: a slider or the colour
\* button that has received input writes its value to the temporary it was
\* given, every other widget leaves its temporary as it is.  The sliders
\* range over -10..10.
InspectorUi(temp, input) ==
    IF ~IsSome(input) THEN temp
    ELSE LET e == Unwrap(input)
         IN  CASE e.widget = "X" -> [temp EXCEPT !.position[1] = e.value]
               [] e.widget = "Y" -> [temp EXCEPT !.position[2] = e.value]
               [] e.widget = "Z" -> [temp EXCEPT !.position[3] = e.value]
               [] e.widget = "Color" -> [temp EXCEPT !.color = e.value]

\* LightUpload that skips the write when the frame has not changed the light
LightUpload_ifchanged(old, new) ==
    IF old = new THEN <<>>
    ELSE <<[op |-> "write_buffer", buffer |-> "light_buffer", data |-> new]>>

\* queue.write_buffer(&self.light_buffer, 0, ..[self.light_uniform])
LightUpload(old, new) ==
    <<[op |-> "write_buffer", buffer |-> "light_buffer", data |-> new]>>

RECURSIVE Uploaded(_, _)
\* the contents of the light buffer after the queue operations ops
Uploaded(buffer, ops) ==
    IF ops = <<>> THEN buffer
    ELSE Uploaded(IF Head(ops).op = "write_buffer" THEN Head(ops).data ELSE buffer, Tail(ops))

\* FrameScene of a render that runs the camera controller itself
FrameScene_update ==
    /\ camera' = update_camera(input_handler.camera_controller, camera)
    /\ UNCHANGED <<instances, cpu_meshes, model_aabb>>

\* FrameScene with a frame that removes the last instance of the list
FrameScene_shrink ==
    /\ instances' = SubSeq(instances, 1, Len(instances) - 1)
    /\ UNCHANGED <<cpu_meshes, model_aabb, camera>>

\* what a frame does to the scene fields: get_hit_instance and
\* perform_box_selection read them, nothing in render writes them
FrameScene == UNCHANGED scene_vars

\* PassSelection of a render that encodes the 3D pass after the UI step
PassSelection_late(selected, hovered, selected_ui, hovered_ui) == <<selected_ui, hovered_ui>>

\* the selected set and the hovered instance the 3D pass reads: the pass is
\* encoded before gui.render runs the UI closure, so they are the fields as
\* the frame found them (selected, hovered), not as the write-back after
\* the UI step leaves them (selected_ui, hovered_ui)
PassSelection(selected, hovered, selected_ui, hovered_ui) == <<selected, hovered>>

\* One successful frame.  resp is what the Response reports and next_pointer
\* the gesture after the frame.  The viewport texture is registered by
\* State::new and never unregistered, so the image is always shown.
Frame(resp, next_pointer) ==
    LET started == DragStartAfterStart(resp, selection_drag_start)
        box == BoxSelectionRequest(resp, started)
        hov == HoverRequest(resp)
        selected_box == IF IsSome(box)
                        THEN perform_box_selection(camera, instances, selected_instances,
                                                   Unwrap(box)[1], Unwrap(box)[2])
                        ELSE selected_instances
        r == HoverRay(camera, Unwrap(hov))
        temp_light == [position |-> light_uniform.position, color |-> light_uniform.color]
        ui_light == InspectorUi(temp_light, inspector_input)
    IN  /\ response' = resp
        /\ last_call' = Call("render", None)
        /\ render_result' = Ok(None)
        /\ attachments' = Some([color |-> render_target, depth |-> depth_texture])
        /\ light_frame' = Some([light |-> light_uniform, temp |-> temp_light, ui |-> ui_light,
                                input |-> inspector_input])
        /\ inspector_input' = None
        /\ light_uniform' = [light_uniform EXCEPT !.position = ui_light.position,
                                                  !.color = ui_light.color]
        /\ queue_ops' = LightUpload(light_uniform, light_uniform') \o
                        <<[op |-> "submit"], [op |-> "present"]>>
        /\ light_buffer' = Uploaded(light_buffer, queue_ops')
        /\ before' = SelectionFields
        /\ pointer' = next_pointer
        /\ is_scene_hovered' = resp.hovered
        /\ hover_request' = hov
        /\ click_request' = resp.clicked
        /\ box_selection_request' = box
        /\ painted_rect' = PaintedRect(resp, started)
        /\ selection_drag_start' = DragStartAfterStop(resp, started)
        /\ IF IsSome(hov)
           THEN /\ ray' = Some(r)
                /\ tested' = TRUE
                /\ hit' = get_hit_instance(r, instances, cpu_meshes, model_aabb)
                /\ hovered_instance' = HoveredAfter(hovered_instance, hit')
                /\ selected_instances' = IF resp.clicked
                                         THEN SelectedAfterClick(selected_box, hit')
                                         ELSE selected_box
           ELSE /\ ray' = None
                /\ tested' = FALSE
                /\ hit' = None
                /\ hovered_instance' = hovered_instance
                /\ selected_instances' = SelectedWithoutRequest(selected_box, resp.clicked)
        /\ draws' = LET drawn == PassSelection(selected_instances, hovered_instance,
                                               selected_instances', hovered_instance')
                    IN  DrawCalls(state_meshes, instances, drawn[1], drawn[2])
        /\ model_file' = None
        /\ loaded' = None
        /\ FrameScene
        /\ UNCHANGED <<pointer_pos, app, new_error, state_meshes, materials,
                       surface_vars, input_vars, event_loop, probe>>

\* the opaque pass indexes self.materials by the material_id of each mesh
OpaquePassInRange(ms, mats) ==
    \A m \in 1..Len(ms) : ms[m].material_id < Len(mats)

\* the index out of bounds panics inside the 3D pass, before the UI runs
RenderPanic ==
    /\ app' = "panicked"
    /\ last_call' = Call("render", None)
    /\ before' = SelectionFields
    /\ model_file' = None
    /\ loaded' = None
    /\ NoFrame(response', hover_request', click_request', box_selection_request',
               painted_rect', ray', tested', hit')
    /\ NotRendered
    /\ UNCHANGED <<scene_vars, selection_vars, pointer_pos, pointer, new_error, state_meshes,
                   materials, rest_vars, event_loop, probe>>

\* RenderFails of a render that acquires the surface texture after the UI
\* step has written the hover fields
RenderFails_late(e) ==
    /\ last_call' = Call("render", None)
    /\ render_result' = Err(e)
    /\ before' = SelectionFields
    /\ model_file' = None
    /\ loaded' = None
    /\ NoFrame(response', hover_request', click_request', box_selection_request',
               painted_rect', ray', tested', hit')
    /\ NoPass
    /\ is_scene_hovered' = FALSE
    /\ hovered_instance' = None
    /\ UNCHANGED <<scene_vars, selected_instances, selection_drag_start, pointer_pos, pointer,
                   app, new_error, state_meshes, materials, rest_vars, event_loop, probe>>

\* get_current_texture fails with e: the `?` on the first line of render
\* returns the error
RenderFails(e) ==
    /\ last_call' = Call("render", None)
    /\ render_result' = Err(e)
    /\ before' = SelectionFields
    /\ model_file' = None
    /\ loaded' = None
    /\ NoFrame(response', hover_request', click_request', box_selection_request',
               painted_rect', ray', tested', hit')
    /\ NoPass
    /\ UNCHANGED <<scene_vars, selection_vars, pointer_pos, pointer, app, new_error,
                   state_meshes, materials, rest_vars, event_loop, probe>>

\* State::render.  Whether the surface hands out its texture is the
\* surface's to choose.
Render ==
    /\ app = "running"
    /\ \E result \in RenderResults :
          IF result # "Ok"
          THEN RenderFails(result)
          ELSE IF ~OpaquePassInRange(state_meshes, materials)
          THEN RenderPanic
          ELSE \E g \in Gestures, hov \in BOOLEAN :
                   /\ g.from = pointer
                   /\ hov => IsSome(pointer_pos)
                   /\ Frame(Response(g, pointer_pos, hov), g.to)

Next == InputCursor \/ Render

Spec == Init /\ [][Next]_vars

----------------------------------------------------------------------------
(* The frame loop of the example program: the closure it gives to          *)
(* event_loop.run, one action for each arm                                 *)

\* the renders the model follows
MaxFrames == 3

\* Reaction that treats a lost surface as it treats out of memory
Reaction_lost_exits(result) ==
    CASE result = "Ok" -> "none"
      [] result \in {"Lost", "OutOfMemory"} -> "exit"
      [] OTHER -> "log"

\* the arm of `match state.render()` a result is matched by
Reaction(result) ==
    CASE result = "Ok" -> "none"
      [] result = "Lost" -> "resize"
      [] result = "OutOfMemory" -> "exit"
      [] OTHER -> "log"

\* State::resize of the example
resize(st, new_size) ==
    IF new_size[1] > 0 /\ new_size[2] > 0
    THEN [st EXCEPT !.size = new_size, !.config = Config(new_size),
                    !.surface_config = Config(new_size), !.configured = TRUE]
    ELSE st

\* the loop at the start of a step
LoopStep(st) ==
    [st EXCEPT !.rendered = FALSE, !.configured = FALSE, !.logged = FALSE,
               !.before = <<st.size, st.config>>]

\* WindowEvent::CloseRequested
CloseRequested ==
    /\ ~event_loop.exiting
    /\ event_loop' = [LoopStep(event_loop) EXCEPT !.exiting = TRUE]
    /\ UNCHANGED <<engine_vars, probe>>

\* WindowEvent::Resized(physical_size)
Resized ==
    \E physical_size \in WindowSizes :
        /\ ~event_loop.exiting
        /\ event_loop' = resize(LoopStep(event_loop), physical_size)
        /\ UNCHANGED <<engine_vars, probe>>

\* WindowEvent::RedrawRequested, delivered after request_redraw: update
\* (which writes the camera uniform only), then render and the match on its
\* result.  render returns the error of get_current_texture, which is the
\* surface's to choose.
RedrawRequested ==
    \E result \in RenderResults :
        /\ ~event_loop.exiting
        /\ event_loop.redraw_requested
        /\ event_loop.frames < MaxFrames
        /\ event_loop' =
              LET st == [LoopStep(event_loop) EXCEPT !.redraw_requested = FALSE,
                                                     !.frames = @ + 1,
                                                     !.rendered = TRUE,
                                                     !.result = Some(result),
                                                     !.previous = event_loop.result]
              IN  CASE Reaction(result) = "none" -> st
                    [] Reaction(result) = "resize" -> resize(st, st.size)
                    [] Reaction(result) = "exit" -> [st EXCEPT !.exiting = TRUE]
                    [] Reaction(result) = "log" -> [st EXCEPT !.logged = TRUE]
        /\ UNCHANGED <<engine_vars, probe>>

\* Event::AboutToWait
AboutToWait ==
    /\ ~event_loop.exiting
    /\ event_loop' = [LoopStep(event_loop) EXCEPT !.redraw_requested = TRUE]
    /\ UNCHANGED <<engine_vars, probe>>

NextLoop == CloseRequested \/ Resized \/ RedrawRequested \/ AboutToWait

SpecLoop == Init /\ [][NextLoop]_vars

\* winit sends AboutToWait whenever it has delivered the events it has, and
\* RedrawRequested once a redraw has been requested of the window
SpecLoopFair == SpecLoop /\ WF_vars(AboutToWait) /\ WF_vars(RedrawRequested)

----------------------------------------------------------------------------
(* The light: the specification SpecLight has frames and input on the      *)
(* inspector panel                                                         *)

NextLight == InputInspector \/ Render

SpecLight == Init /\ [][NextLight]_vars

----------------------------------------------------------------------------
(* Input, in a scene without instances: the specification SpecInput has   *)
(* the pointer, frames, the mouse buttons and mouse motion; SpecKeys has   *)
(* the pointer at one place of the viewport or away, frames, the left      *)
(* mouse button, the key W and updates                                     *)

InitInput ==
    /\ Init
    /\ instances = <<>>

NextInput == InputCursor \/ Render \/ MouseInput \/ MouseMotion

SpecInput == InitInput /\ [][NextInput]_vars

\* SpecCursor has the pointer, frames and the mouse buttons
NextCursor == InputCursor \/ Render \/ MouseInput

SpecCursor == InitInput /\ [][NextCursor]_vars

NextKeys ==
    \/ InputCursor /\ pointer_pos' \in {None, Some(<<10, 14>>)}
    \/ Render
    \/ MouseInput /\ last_call'.arg[2] = "Left"
    \/ KeyboardInput /\ last_call'.arg[2] = "KeyW"
    \/ Update

SpecKeys == InitInput /\ [][NextKeys]_vars

----------------------------------------------------------------------------
(* The scene between frames: the specification SpecUpdate has the pointer, *)
(* frames and updates in the scene of the grid of quads                    *)

InitUpdate ==
    /\ Init
    /\ instances = GridInstances
    /\ cpu_meshes = QuadModel

NextUpdate == InputCursor \/ Render \/ Update

SpecUpdate == InitUpdate /\ [][NextUpdate]_vars

\* SpecSceneResize has the pointer at two places of the viewport or away,
\* frames, and resizes to a wider surface and to a width of 0
NextSceneResize ==
    \/ InputCursor /\ pointer_pos' \in {None, Some(<<10, 14>>), Some(<<16, 14>>)}
    \/ Render
    \/ Resize /\ last_call'.arg \in {<<60, 40>>, <<0, 40>>}

SpecSceneResize == InitUpdate /\ [][NextSceneResize]_vars

----------------------------------------------------------------------------
(* Resizing: the specification SpecResize has frames and resizes *)

NextResize == Resize \/ Render

SpecResize == Init /\ [][NextResize]_vars

----------------------------------------------------------------------------
(* State::new: the specification SpecNew starts before the State exists,   *)
(* constructs it from one of the model files and renders                   *)

\* what the GPU setup before the assets does: it succeeds, or one of
\* create_surface, request_adapter, request_device fails
GpuOutcomes == {"ok", "WgpuCreateSurface", "NoGpuAdapter", "WgpuRequestDevice"}

\* before State::new returns there is no State: the variables of its
\* fields hold the values of an empty scene, and no step reads them
InitNew ==
    /\ app = "start"
    /\ model_file = None
    /\ loaded = None
    /\ new_error = None
    /\ instances = <<>>
    /\ cpu_meshes = <<>>
    /\ model_aabb = load_model_aabb(<<>>)
    /\ state_meshes = <<>>
    /\ materials = <<>>
    /\ camera = InitCamera
    /\ InitSelection
    /\ pointer_pos = None
    /\ pointer = "up"
    /\ before = SelectionFields
    /\ NoFrame(response, hover_request, click_request, box_selection_request, painted_rect,
               ray, tested, hit)
    /\ NothingRendered
    /\ InitRest
    /\ last_call = Call("none", None)
    /\ probe = NoProbe

\* State::new returns Err(e)
NewFails(e) ==
    /\ app' = "failed"
    /\ new_error' = Some(e)
    /\ UNCHANGED <<scene_vars, selection_vars, state_meshes, materials, rest_vars>>

\* State::new returns Ok(State) built from model
NewSucceeds(model) ==
    /\ app' = "running"
    /\ new_error' = None
    /\ instances' = GridInstances
    /\ cpu_meshes' = model.meshes
    /\ model_aabb' = model.aabb
    /\ camera' = InitCamera
    /\ materials' = RenderMaterials(model.materials)
    /\ state_meshes' = RenderMeshes(model.meshes)
    /\ selected_instances' = {}
    /\ selection_drag_start' = None
    /\ hovered_instance' = None
    /\ is_scene_hovered' = FALSE
    /\ light_uniform' = InitLight
    /\ light_buffer' = InitLight
    /\ inspector_input' = None
    /\ size' = InitSize
    /\ config' = Config(InitSize)
    /\ surface_config' = Config(InitSize)
    /\ render_target' = create_render_target(Config(InitSize))
    /\ depth_texture' = create_depth_texture(Config(InitSize))
    /\ input_handler' = NewInputHandler
    /\ UNCHANGED <<window_cursor, look_mode, held_keys>>

\* State::new(window, model_path)
StateNew ==
    /\ app = "start"
    /\ \E gpu \in GpuOutcomes, file \in {f \in Files : WellFormed(f)} :
          IF gpu # "ok"
          THEN /\ model_file' = None
               /\ loaded' = None
               /\ NewFails(gpu)
          ELSE /\ model_file' = Some(file)
               /\ loaded' = Some(load_model(file))
               /\ IF IsOk(load_model(file))
                  THEN NewSucceeds(load_model(file)[2])
                  ELSE NewFails(load_model(file)[2])
    /\ last_call' = Call("new", None)
    /\ before' = SelectionFields
    /\ NoFrame(response', hover_request', click_request', box_selection_request',
               painted_rect', ray', tested', hit')
    /\ NotRendered
    /\ UNCHANGED <<pointer_pos, pointer, event_loop, probe>>

NextNew == StateNew \/ Render

SpecNew == InitNew /\ [][NextNew]_vars

----------------------------------------------------------------------------
(* get_hit_instance as a function of its inputs: the specification SpecHit *)
(* draws a ray, an instance list and a model, and casts the ray once       *)

MaxInstances == 2

RECURSIVE SeqsUpTo(_, _)
\* the sequences of at most n elements of S
SeqsUpTo(S, n) ==
    IF n = 0 THEN {<<>>}
    ELSE LET shorter == SeqsUpTo(S, n - 1)
         IN  shorter \cup {Append(q, x) : q \in shorter, x \in S}

HitPositions == {<<0, 0, 0>>, <<1, 0, 0>>, <<0, 0, -3>>}

HitRotations == {QuatIdentity, QuatY90}

HitInstances == {[position |-> p, rotation |-> q] : p \in HitPositions, q \in HitRotations}

HitModels == {QuadModel, EmptyModel, NoTriangleModel}

HitRays ==
    {[origin |-> o, direction |-> d] :
        o \in {<<0, 1, 5>>, <<1, 1, 5>>},
        d \in {<<0, 0, -1>>, <<1, 0, -5>>, <<0, 0, 1>>}}

InitHit ==
    /\ instances \in SeqsUpTo(HitInstances, MaxInstances)
    /\ cpu_meshes \in HitModels
    /\ model_aabb = load_model_aabb(cpu_meshes)
    /\ state_meshes = RenderMeshes(cpu_meshes)
    /\ materials = SceneMaterials(cpu_meshes)
    /\ app = "running"
    /\ model_file = None
    /\ loaded = None
    /\ new_error = None
    /\ camera = InitCamera
    /\ InitSelection
    /\ pointer_pos = None
    /\ pointer = "up"
    /\ response = NoResponse
    /\ hover_request = None
    /\ click_request = FALSE
    /\ box_selection_request = None
    /\ painted_rect = None
    /\ before = SelectionFields
    /\ ray \in {Some(r) : r \in HitRays}
    /\ tested = FALSE
    /\ hit = None
    /\ NothingRendered
    /\ InitRest
    /\ last_call = Call("new", None)
    /\ probe = NoProbe

\* one call of get_hit_instance on the drawn inputs
CastRay ==
    /\ ~tested
    /\ tested' = TRUE
    /\ hit' = get_hit_instance(Unwrap(ray), instances, cpu_meshes, model_aabb)
    /\ UNCHANGED <<scene_vars, selection_vars, pointer_pos, pointer, response, hover_request,
                   click_request, box_selection_request, painted_rect, before, ray,
                   setup_vars, draws, light_frame, queue_ops, rest_vars, attachments, last_call,
                   render_result, event_loop, probe>>

NextHit == CastRay

SpecHit == InitHit /\ [][NextHit]_vars

----------------------------------------------------------------------------
(* The functions of camera.rs called on their own, once, on drawn          *)
(* arguments: SpecAabb has Ray::intersect_aabb, SpecTriangle has           *)
(* Ray::intersect_triangle; SpecMouse has a CameraController given a       *)
(* sequence of pointer motions                                             *)

\* the unit cube centred at the origin and the cube of side two
AabbBoxes ==
    {[min |-> <<Rat(-1, 2), Rat(-1, 2), Rat(-1, 2)>>, max |-> <<Rat(1, 2), Rat(1, 2), Rat(1, 2)>>],
     [min |-> <<F(-1), F(-1), F(-1)>>, max |-> <<F(1), F(1), F(1)>>]}

AabbOrigins == {<<0, 0, 5>>, <<0, 0, 0>>, <<1, 0, 5>>, <<3, 0, 0>>, <<0, 2, 5>>, <<1, 1, 0>>}

AabbDirections ==
    {<<0, 0, -1>>, <<0, 0, 1>>, <<1, 0, 0>>, <<-1, 0, 0>>, <<0, -2, -5>>, <<-1, 0, -5>>,
     <<-1, -1, 0>>}

\* the state of the engine while a function is called on its own
InitProbe ==
    /\ InitState
    /\ instances = <<>>

InitAabb ==
    /\ InitProbe
    /\ probe \in {[fn |-> "intersect_aabb", origin |-> o, direction |-> d, min |-> b.min,
                    max |-> b.max, done |-> FALSE, result |-> None] :
                      o \in AabbOrigins, d \in AabbDirections, b \in AabbBoxes}

\* one call of Ray::intersect_aabb
IntersectAabb ==
    /\ probe.fn = "intersect_aabb"
    /\ ~probe.done
    /\ probe' = [probe EXCEPT !.done = TRUE,
                              !.result = intersect_aabb(probe.origin, probe.direction,
                                                        probe.min, probe.max)]
    /\ UNCHANGED <<engine_vars, event_loop>>

NextAabb == IntersectAabb

SpecAabb == InitAabb /\ [][NextAabb]_vars

\* a triangle in the plane z = 0, a slanted one, and one without area
ProbeTriangles ==
    {<<(<<0, 0, 0>>), (<<2, 0, 0>>), (<<0, 2, 0>>)>>,
     <<(<<0, 0, 0>>), (<<0, 2, 0>>), (<<2, 0, 2>>)>>,
     <<(<<0, 0, 0>>), (<<1, 1, 0>>), (<<2, 2, 0>>)>>}

TriangleOrigins == {<<0, 0, 5>>, <<1, 1, 5>>, <<2, 2, 5>>, <<1, 0, 0>>, <<3, 1, 5>>, <<1, 1, -5>>}

TriangleDirections == {<<0, 0, -1>>, <<0, 0, 1>>, <<1, 0, 0>>, <<-1, 0, -5>>}

InitTriangle ==
    /\ InitProbe
    /\ probe \in {[fn |-> "intersect_triangle", origin |-> o, direction |-> d,
                    v0 |-> t[1], v1 |-> t[2], v2 |-> t[3], done |-> FALSE, result |-> None] :
                      o \in TriangleOrigins, d \in TriangleDirections, t \in ProbeTriangles}

\* one call of Ray::intersect_triangle
IntersectTriangle ==
    /\ probe.fn = "intersect_triangle"
    /\ ~probe.done
    /\ probe' = [probe EXCEPT !.done = TRUE,
                              !.result = intersect_triangle(probe.origin, probe.direction,
                                                            probe.v0, probe.v1, probe.v2)]
    /\ UNCHANGED <<engine_vars, event_loop>>

NextTriangle == IntersectTriangle

SpecTriangle == InitTriangle /\ [][NextTriangle]_vars

\* the motions a controller is given
MaxMotions == 3

\* pointer motions in pixels, small and large, of both signs
ProbeDx == {-100000, 0, 200}
ProbeDy == {-100000, -200, 1, 100000}

InitMouse ==
    /\ InitProbe
    /\ probe = [fn |-> "process_mouse", ctrl |-> NewCameraController, calls |-> 0,
                delta |-> <<0, 0>>, prev |-> NewCameraController]

\* one call of CameraController::process_mouse
ProcessMouse ==
    \E dx \in ProbeDx, dy \in ProbeDy :
        /\ probe.fn = "process_mouse"
        /\ probe.calls < MaxMotions
        /\ probe' = [probe EXCEPT !.ctrl = process_mouse(probe.ctrl, dx, dy),
                                  !.calls = @ + 1,
                                  !.delta = <<dx, dy>>,
                                  !.prev = probe.ctrl]
        /\ UNCHANGED <<engine_vars, event_loop>>

NextMouse == ProcessMouse

SpecMouse == InitMouse /\ [][NextMouse]_vars

----------------------------------------------------------------------------
(* Reference for picking: the triangles of every instance placed in world  *)
(* space and tested against the world-space ray, without any broad phase   *)

\* a model-space vertex of an instance in world space
ToWorld(inst, v) == Add(Rotate(inst.rotation, v), inst.position)

\* the hit of ray r on triangle k (0-based) of mesh, placed by inst
WorldTriangleHit(r, inst, mesh, k) ==
    intersect_triangle(r.origin, r.direction,
                       ToWorld(inst, mesh.vertices[mesh.indices[3 * k + 1] + 1]),
                       ToWorld(inst, mesh.vertices[mesh.indices[3 * k + 2] + 1]),
                       ToWorld(inst, mesh.vertices[mesh.indices[3 * k + 3] + 1]))

\* every pair <<instance number, distance>> of a triangle hit
WorldHits(r, insts, meshes) ==
    UNION {UNION {{<<i, Unwrap(WorldTriangleHit(r, insts[i + 1], meshes[m], k))>> :
                      k \in {kk \in 0..((Len(meshes[m].indices) \div 3) - 1) :
                                IsSome(WorldTriangleHit(r, insts[i + 1], meshes[m], kk))}} :
                  m \in 1..Len(meshes)} :
           i \in 0..(Len(insts) - 1)}

\* the minimal distance of a non-empty set of hits, and the instances attaining it
NearestDistance(H) == CHOOSE t \in {h[2] : h \in H} : \A h \in H : ~Lt(h[2], t)

NearestOwners(H) == {h[1] : h \in {g \in H : g[2] = NearestDistance(H)}}

\* insts reordered by the permutation perm of 1..Len(insts)
Reordered(insts, perm) == [k \in 1..Len(insts) |-> insts[perm[k]]]

\* C1: get_hit_instance returns the owner of the triangle hit of globally
\* minimal positive distance, with that distance (none when no triangle is
\* hit), and when a single instance attains the minimum every reordering of
\* the instance list yields the same instance and distance.
C1_NearestHit ==
    tested /\ IsSome(ray) =>
        LET r == Unwrap(ray)
            H == WorldHits(r, instances, cpu_meshes)
        IN  /\ H = {} => hit = None
            /\ H # {} =>
                  /\ IsSome(hit)
                  /\ Unwrap(hit)[2] = NearestDistance(H)
                  /\ Unwrap(hit)[1] \in NearestOwners(H)
            /\ Cardinality(NearestOwners(H)) = 1 =>
                  \A perm \in Permutations(1..Len(instances)) :
                      LET res == get_hit_instance(r, Reordered(instances, perm), cpu_meshes, model_aabb)
                      IN  /\ IsSome(res)
                          /\ perm[Unwrap(res)[1] + 1] - 1 \in NearestOwners(H)
                          /\ Unwrap(res)[2] = NearestDistance(H)

\* C10: when several instances attain the minimal hit distance,
\* get_hit_instance returns the first of them in the instance list.
C10_FirstWinsTie ==
    tested /\ IsSome(ray) =>
        LET H == WorldHits(Unwrap(ray), instances, cpu_meshes)
        IN  H # {} /\ Cardinality(NearestOwners(H)) >= 2 =>
               /\ IsSome(hit)
               /\ Unwrap(hit)[2] = NearestDistance(H)
               /\ Unwrap(hit)[1] \in NearestOwners(H)
               /\ \A i \in NearestOwners(H) : Unwrap(hit)[1] <= i

----------------------------------------------------------------------------
(* Frames: what a frame leaves in the selection fields, stated on the state *)
(* after the frame with before holding the fields as they were             *)

\* the hit test for the ray through the pointer position, computed from the
\* pointer position egui was given
PointerHit ==
    LET p == Unwrap(pointer_pos)
        r == create_ray(camera,
                        <<p[1] - ImageRect.min[1], p[2] - ImageRect.min[2]>>,
                        <<ImageRect.max[1] - ImageRect.min[1], ImageRect.max[2] - ImageRect.min[2]>>)
    IN  get_hit_instance(r, instances, cpu_meshes, model_aabb)

\* the frame ran the single pick
PickRan == click_request /\ tested

\* the frame ran the box selection
BoxRan == IsSome(box_selection_request)

\* C2: after a frame that reports a click on the viewport with the pointer
\* over it, selected_instances is exactly {i} when the hit test at the
\* pointer returns instance i and empty when it returns none.
C2_ClickReplacesSelection ==
    response.clicked /\ response.hovered /\ IsSome(response.hover_pos) =>
        selected_instances = IF IsSome(PointerHit) THEN {Unwrap(PointerHit)[1]} ELSE {}

\* a click that hit an instance outside a non-empty selection and replaced it
C2_Witness ==
    /\ PickRan
    /\ IsSome(hit)
    /\ before.selected # {}
    /\ Unwrap(hit)[1] \notin before.selected
    /\ selected_instances = {Unwrap(hit)[1]}

\* C3: every frame that reports the release of the primary button over the
\* viewport runs exactly one selection path, the box selection when the
\* rectangle from drag start to release is more than DragThreshold wide or
\* high and the single pick otherwise.
C3_ExactlyOnePath ==
    response.released_primary /\ response.hovered /\ IsSome(response.hover_pos) =>
        /\ BoxRan \/ PickRan
        /\ ~(BoxRan /\ PickRan)
        /\ BoxRan => DraggedEnough(Unwrap(box_selection_request)[1])

\* the position of instance position pos on the screen lies in rect and pos
\* is in front of the camera, in integers: with w = f . rel > 0 the screen x
\* is image.min.x + (1 + cot * x_v / (aspect * w)) * width / 2, and the
\* bounds are multiplied by the positive 2 * aspect * w * (denominators)
InsideBox(cam, pos, rect, image) ==
    LET ax == ViewAxes(cam)
        rel == Sub(pos, cam.eye)
        w == Dot(ax.f, rel)
        cn == cam.cot_half_fovy[1]
        cd == cam.cot_half_fovy[2]
        an == cam.aspect[1]
        ad == cam.aspect[2]
        sx == (cd * an * w + cn * ad * Dot(ax.s, rel)) * width(image)
        sy == (cd * w - cn * Dot(ax.u, rel)) * height(image)
    IN  /\ w > 0
        /\ 2 * cd * an * w * (rect.min[1] - image.min[1]) <= sx
        /\ sx <= 2 * cd * an * w * (rect.max[1] - image.min[1])
        /\ 2 * cd * w * (rect.min[2] - image.min[2]) <= sy
        /\ sy <= 2 * cd * w * (rect.max[2] - image.min[2])

\* C4: after a frame that ran the box selection, selected_instances is
\* exactly the set of instances in front of the camera whose origin projects
\* into the rectangle, bounds included; nothing selected before survives
\* unless it satisfies both.
C4_BoxSelectsExactly ==
    BoxRan /\ ~click_request =>
        selected_instances =
            {i \in 0..(Len(instances) - 1) :
                InsideBox(camera, instances[i + 1].position,
                          Unwrap(box_selection_request)[1], Unwrap(box_selection_request)[2])}

\* a box selection that dropped a selected instance, kept an instance on the
\* bound of the rectangle and left out an instance behind the camera
C4_Witness ==
    /\ BoxRan
    /\ before.selected \ selected_instances # {}
    /\ \E i \in selected_instances :
          LET rect == Unwrap(box_selection_request)[1]
              p == ScreenPos(camera, instances[i + 1].position, ImageRect)
          IN  p[1] = F(rect.min[1]) \/ p[1] = F(rect.max[1])
    /\ \E i \in 0..(Len(instances) - 1) :
          /\ i \notin selected_instances
          /\ BehindCamera(view_proj_mul(camera, instances[i + 1].position))

\* C5: a click that hits the only selected instance leaves it selected.
C5_ClickIdempotent ==
    PickRan /\ IsSome(hit) /\ before.selected = {Unwrap(hit)[1]} =>
        selected_instances = {Unwrap(hit)[1]}

\* a second click on the instance that was the only one selected
C5_Witness ==
    /\ PickRan
    /\ IsSome(hit)
    /\ before.selected = {Unwrap(hit)[1]}
    /\ selected_instances = before.selected

\* C6: selection_drag_start becomes set only in a frame that reports the
\* start of a primary-button drag, a frame that reports one leaves
\* selected_instances as it was, and selection_drag_start is none after
\* every frame that reports a drag stop.
C6_DragStartLifetime ==
    /\ IsSome(selection_drag_start) /\ selection_drag_start # before.drag_start =>
          response.drag_started /\ selection_drag_start = response.interact_pointer_pos
    /\ response.drag_started => selected_instances = before.selected
    /\ response.drag_stopped => selection_drag_start = None

\* a drag stop without a release position, which ran no box selection and
\* reset a drag start that was set
C6_Witness ==
    /\ response.drag_stopped
    /\ ~IsSome(response.interact_pointer_pos)
    /\ IsSome(before.drag_start)
    /\ ~BoxRan
    /\ selection_drag_start = None

\* C7: after a frame with the pointer over the viewport and no drag in
\* progress, the hit test has run for the ray through the pointer position
\* and hovered_instance is its result.
C7_HoverFollowsPointer ==
    /\ response.hovered /\ IsSome(response.hover_pos)
    /\ ~IsSome(before.drag_start) /\ ~response.drag_started /\ ~response.dragged
    => /\ tested
       /\ hit = PointerHit
       /\ hovered_instance = IF IsSome(PointerHit) THEN Some(Unwrap(PointerHit)[1]) ELSE None

\* the pointer left a hovered instance and the frame reset hovered_instance
C7_Witness ==
    /\ tested
    /\ ~IsSome(before.drag_start) /\ ~response.drag_started /\ ~response.dragged
    /\ IsSome(before.hovered)
    /\ hit = None
    /\ hovered_instance = None

\* C8: a frame during a drag (drag start set, the primary button dragging,
\* no stop) leaves hovered_instance, selected_instances and
\* selection_drag_start as they were.
C8_DragChangesNothing ==
    IsSome(before.drag_start) /\ response.dragged /\ ~response.drag_stopped =>
        /\ hovered_instance = before.hovered
        /\ selected_instances = before.selected
        /\ selection_drag_start = before.drag_start

\* the scene has no instance or no triangle
DegenerateScene ==
    \/ Len(instances) = 0
    \/ \A m \in 1..Len(cpu_meshes) : Len(cpu_meshes[m].indices) < 3

\* C9: with no instance, no mesh or no triangle, get_hit_instance returns
\* none for every ray, and a frame leaves hovered_instance none and, when it
\* ran the single pick, selected_instances empty.
C9_DegenerateSceneNoHit ==
    DegenerateScene =>
        /\ \A r \in HitRays : get_hit_instance(r, instances, cpu_meshes, model_aabb) = None
        /\ tested => hit = None
        /\ hovered_instance = None
        /\ PickRan => selected_instances = {}

\* a click in a scene of instances without triangles that emptied a
\* selection made by box
C9_Witness ==
    /\ DegenerateScene
    /\ Len(instances) > 0
    /\ PickRan
    /\ before.selected # {}
    /\ hit = None
    /\ selected_instances = {}

----------------------------------------------------------------------------
(* Loading and setup, checked under SpecNew *)

\* the Model of the last step, when that step loaded one
LoadedModel == Unwrap(loaded)[2]
ModelLoaded == IsSome(loaded) /\ IsOk(Unwrap(loaded))

\* C11: when load_model returns a Model, the material_id of every mesh is an
\* index into its materials, and no frame fails on the lookup
\* materials[mesh.material_id] of the opaque pass
C11_MaterialIdInRange ==
    /\ ModelLoaded =>
          \A m \in 1..Len(LoadedModel.meshes) :
              LoadedModel.meshes[m].material_id < Len(LoadedModel.materials)
    /\ app # "panicked"

\* all vertex positions of a model
ModelVertices(model) ==
    UNION {{model.meshes[m].vertices[k] : k \in 1..Len(model.meshes[m].vertices)} :
               m \in 1..Len(model.meshes)}

C13_MissingFileIsTobjError ==
    (IsSome(model_file) /\ ~IsSome(Unwrap(model_file))) =>
        /\ loaded = Some(Err("Tobj"))
        /\ app = "failed"
        /\ new_error = Some("Tobj")

C13_Witness ==
    /\ IsSome(model_file)
    /\ ~IsSome(Unwrap(model_file))
    /\ IsSome(loaded)
    /\ ~IsOk(Unwrap(loaded))

Magenta == <<"color", <<255, 0, 255, 255>>>>
White == <<"color", <<255, 255, 255, 255>>>>

\* C16: when load_model fails, State::new returns that error and no State
\* exists; when it succeeds, setup goes on whatever the textures do: there
\* is one bind group per material of the model, in the order of the
\* materials, with the decoded image, with magenta when the texture cannot
\* be loaded, with white when the material names no texture
C16_SetupFallbacks ==
    /\ (IsSome(loaded) /\ ~IsOk(Unwrap(loaded))) =>
          /\ app = "failed"
          /\ new_error = Some(Unwrap(loaded)[2])
          /\ instances = <<>> /\ state_meshes = <<>> /\ materials = <<>>
    /\ ModelLoaded =>
          /\ app = "running"
          /\ new_error = None
          /\ Len(materials) = Len(LoadedModel.materials)
          /\ \A k \in 1..Len(materials) :
                LET mat == LoadedModel.materials[k]
                IN  /\ materials[k].label = mat.name
                    /\ mat.diffuse_texture = "" => materials[k].texture = White
                    /\ (mat.diffuse_texture # "" /\ mat.diffuse_texture \notin GoodTextures) =>
                          materials[k].texture = Magenta
                    /\ mat.diffuse_texture \in GoodTextures =>
                          materials[k].texture = <<"image", mat.diffuse_texture>>

\* a State set up from a model with a material whose texture fails to load
\* and a material without texture
C16_Witness ==
    /\ ModelLoaded
    /\ app = "running"
    /\ \E k, j \in 1..Len(materials) :
          /\ materials[k].texture = Magenta
          /\ materials[j].texture = White

----------------------------------------------------------------------------
(* The 3D pass, checked under Spec *)

\* the calls of a pass: every <<run, position>> with the call issued there
PassCalls(pass) == UNION {{<<run, k>> : k \in 1..Len(run)} : run \in pass.runs}

\* the number of calls of a pass that draw mesh m for the instances first..last
TimesDrawn(pass, m, first, last) ==
    Cardinality({c \in PassCalls(pass) :
                    /\ c[1][c[2]].mesh = m
                    /\ c[1][c[2]].first = first
                    /\ c[1][c[2]].last = last})

\* the names of the passes of the frame, in the order of issue
PassOrder == [k \in 1..Len(draws) |-> draws[k].pass]

\* C17: the draws of a frame are the opaque pass (every mesh once over all
\* instances), then the selection overlay, then the hover overlay.  The
\* selection overlay is issued exactly when the selected set is not empty;
\* it draws every selected instance once per mesh and no other instance.
\* The hover overlay is issued exactly when there is a hovered instance
\* that is not selected, and draws that instance once per mesh.
C17_DrawOrder ==
    draws # <<>> =>
        LET sel == before.selected
            hov == before.hovered
            has_sel == sel # {}
            has_hov == IsSome(hov) /\ Unwrap(hov) \notin sel
            n == Len(state_meshes)
        IN  /\ PassOrder = <<"opaque">> \o (IF has_sel THEN <<"selection">> ELSE <<>>)
                                        \o (IF has_hov THEN <<"hover">> ELSE <<>>)
            /\ Cardinality(PassCalls(draws[1])) = n
            /\ \A m \in 0..(n - 1) : TimesDrawn(draws[1], m, 0, Len(instances)) = 1
            /\ has_sel =>
                  /\ \A i \in sel : \A m \in 0..(n - 1) : TimesDrawn(draws[2], m, i, i + 1) = 1
                  /\ \A c \in PassCalls(draws[2]) :
                        /\ c[1][c[2]].first \in sel
                        /\ c[1][c[2]].last = c[1][c[2]].first + 1
            /\ has_hov =>
                  /\ Cardinality(PassCalls(draws[Len(draws)])) = n
                  /\ \A m \in 0..(n - 1) :
                        TimesDrawn(draws[Len(draws)], m, Unwrap(hov), Unwrap(hov) + 1) = 1

\* a frame that draws all three passes and leaves some instance unselected
C17_Witness ==
    /\ Len(draws) = 3
    /\ state_meshes # <<>>
    /\ before.selected # {}
    /\ Cardinality(before.selected) < Len(instances)

----------------------------------------------------------------------------
(* The light, checked under SpecLight *)

\* the positions in queue_ops of the operations named op
OpsAt(op) == {k \in 1..Len(queue_ops) : queue_ops[k].op = op}

\* C20: in a frame the light position and colour are copied to temporaries,
\* the UI is given the temporaries, and what the UI leaves in them is the
\* light after the frame; the light uniform is written to its buffer
\* exactly once, with the merged values, before the one submit of the
\* frame, whether or not the values changed; a frame without input on the
\* inspector leaves the light as it was
C20_LightTemporaries ==
    IsSome(light_frame) =>
        LET f == Unwrap(light_frame)
        IN  /\ f.temp = [position |-> f.light.position, color |-> f.light.color]
            /\ light_uniform.position = f.ui.position
            /\ light_uniform.color = f.ui.color
            /\ ~IsSome(f.input) => light_uniform = f.light
            /\ Cardinality(OpsAt("write_buffer")) = 1
            /\ Cardinality(OpsAt("submit")) = 1
            /\ \A w \in OpsAt("write_buffer") :
                  /\ queue_ops[w].buffer = "light_buffer"
                  /\ queue_ops[w].data = light_uniform
                  /\ \A b \in OpsAt("submit") : w < b
            /\ light_buffer = light_uniform

\* a frame whose UI step gets an edit that changes the light
C20_Witness ==
    /\ IsSome(light_frame)
    /\ IsSome(Unwrap(light_frame).input)
    /\ light_uniform # Unwrap(light_frame).light
    /\ light_uniform.position[1] = -10

----------------------------------------------------------------------------
(* Resizing, checked under SpecResize *)

\* a texture has the width and height of configuration cfg
SizedAs(texture, cfg) == texture.width = cfg.width /\ texture.height = cfg.height

\* C14: whatever resizes and frames have run, the configuration has the
\* stored size and is the one the surface is configured with, the colour
\* render target and the depth texture have its width and height, and so
\* have the attachments of every 3D pass; a resize to a positive size
\* stores it and makes both textures anew for it, a resize to a width or
\* height of 0 changes none of these fields
C14_TargetsMatchSurface ==
    /\ config = Config(size)
    /\ surface_config = config
    /\ SizedAs(render_target, config)
    /\ SizedAs(depth_texture, config)
    /\ IsSome(attachments) =>
          /\ Unwrap(attachments).color = render_target
          /\ Unwrap(attachments).depth = depth_texture
    /\ last_call.handler = "resize" =>
          IF last_call.arg[1] > 0 /\ last_call.arg[2] > 0
          THEN /\ size = last_call.arg
               /\ render_target = create_render_target(Config(last_call.arg))
               /\ depth_texture = create_depth_texture(Config(last_call.arg))
          ELSE surface_vars = last_call.surface

\* a resize to a zero width that follows a resize to another positive size
C14_Witness ==
    /\ last_call.handler = "resize"
    /\ last_call.arg[1] = 0
    /\ size = <<60, 40>>
    /\ size # InitSize

----------------------------------------------------------------------------
(* Camera look, checked under SpecInput *)

\* C18: pointer motion changes the yaw or pitch of the camera controller
\* only in camera-look mode, that is after a right-button press made while
\* the pointer was over the viewport and before the release that follows
\* it; a right-button press over the UI chrome does not make later motion
\* turn the camera
C18_LookOnlyOverViewport ==
    (/\ last_call.handler = "handle_mouse_motion"
     /\ input_handler.camera_controller # last_call.input.camera_controller)
        => look_mode

----------------------------------------------------------------------------
(* The scene data, checked under SpecUpdate *)

\* C19: a frame, with the hit tests and the box selection it runs, leaves
\* instances, cpu_meshes, model_aabb and camera as they were; of all
\* handlers only update changes the camera
C19_SceneReadOnly ==
    /\ last_call.handler = "render" => scene_vars = last_call.scene
    /\ <<instances, cpu_meshes, model_aabb>> =
          <<last_call.scene[1], last_call.scene[2], last_call.scene[3]>>
    /\ camera # last_call.scene[4] => last_call.handler = "update"

\* a frame that runs the box selection and a hit test that hits, with the
\* camera that update has made
C19_Witness ==
    /\ last_call.handler = "render"
    /\ IsSome(box_selection_request)
    /\ tested
    /\ IsSome(hit)
    /\ camera.target = <<0, 1, 4>>
    /\ camera # InitCamera

----------------------------------------------------------------------------
(* The frame loop and a failed render *)

\* the surface errors the loop goes on after
NonFatal == SurfaceErrors \ {"OutOfMemory"}

\* what the step of a failed render has done, by the kind of the error
FailedRenderReaction ==
    event_loop.rendered =>
    /\ event_loop.result = Some("Lost") =>
          /\ event_loop.configured
          /\ event_loop.size = event_loop.before[1]
          /\ event_loop.surface_config = Config(event_loop.before[1])
          /\ ~event_loop.exiting /\ ~event_loop.logged
    /\ event_loop.result = Some("OutOfMemory") => event_loop.exiting
    /\ event_loop.result \in {Some("Timeout"), Some("Outdated")} =>
          /\ event_loop.logged
          /\ ~event_loop.exiting /\ ~event_loop.configured
          /\ <<event_loop.size, event_loop.config>> = event_loop.before

\* C15: the frame loop reacts to a failed render by the kind of the error:
\* after Lost the surface has been configured again with the size the state
\* had and the loop goes on, after OutOfMemory the loop is exiting, after any
\* other error the error has been printed and nothing else has changed; and
\* after a failed render that is not out of memory a later render is
\* attempted, unless the loop exits first.
C15_FrameLoopErrors ==
    /\ []FailedRenderReaction
    /\ \A n \in 1..(MaxFrames - 1) :
          (/\ event_loop.frames = n
           /\ event_loop.rendered
           /\ event_loop.result \in {Some(e) : e \in NonFatal})
              ~> (event_loop.frames > n \/ event_loop.exiting)

\* a render has been attempted after a render that found the surface lost,
\* which had been configured again with a size the window was resized to
C15_Witness ==
    /\ event_loop.previous = Some("Lost")
    /\ event_loop.rendered
    /\ event_loop.frames = 2
    /\ event_loop.size # InitSize
    /\ ~event_loop.exiting

----------------------------------------------------------------------------
(* A render that cannot acquire the surface texture *)

\* the last step was a render that returned an error
RenderFailed == IsSome(render_result) /\ ~IsOk(render_result)

\* C27: when acquiring the surface texture fails, render returns the error
\* before changing anything: the selected set, the hovered instance, the
\* drag start, the scene-hovered flag and the light are as before the call,
\* the UI step has not run (no response was read, the input pending on the
\* inspector is still pending), no pass was encoded and nothing was
\* submitted or presented.
C27_FailedRenderChangesNothing ==
    RenderFailed =>
        /\ last_call.handler = "render"
        /\ render_result[2] \in SurfaceErrors
        /\ SelectionFields = before
        /\ light_vars = last_call.light
        /\ scene_vars = last_call.scene
        /\ response = NoResponse /\ hover_request = None /\ ~click_request
        /\ box_selection_request = None /\ ~tested
        /\ draws = <<>> /\ attachments = None /\ light_frame = None
        /\ queue_ops = <<>>

\* a render has failed on a lost surface with an instance hovered, an
\* instance selected and a drag in progress
C27_Witness ==
    /\ render_result = Err("Lost")
    /\ IsSome(hovered_instance)
    /\ selected_instances # {}
    /\ IsSome(selection_drag_start)
    /\ is_scene_hovered

----------------------------------------------------------------------------
(* Reference for the slab test: the parameters at which the line           *)
(* origin + t * direction enters and leaves the closed slab of an axis     *)

\* the line lies in the slab lo <= x <= hi of an axis it does not move along
InSlab(lo, hi, o) == Le(lo, F(o)) /\ Le(F(o), hi)

SlabEntry(lo, hi, o, k) ==
    IF k = 0 THEN (IF InSlab(lo, hi, o) THEN NegInf ELSE PosInf)
    ELSE FMin(SlabParam(lo, o, k), SlabParam(hi, o, k))

SlabExit(lo, hi, o, k) ==
    IF k = 0 THEN (IF InSlab(lo, hi, o) THEN PosInf ELSE NegInf)
    ELSE FMax(SlabParam(lo, o, k), SlabParam(hi, o, k))

\* the largest entry parameter and the smallest exit parameter of a probe
LargestEntry(p) ==
    FMax(FMax(SlabEntry(p.min[1], p.max[1], p.origin[1], p.direction[1]),
              SlabEntry(p.min[2], p.max[2], p.origin[2], p.direction[2])),
         SlabEntry(p.min[3], p.max[3], p.origin[3], p.direction[3]))

SmallestExit(p) ==
    FMin(FMin(SlabExit(p.min[1], p.max[1], p.origin[1], p.direction[1]),
              SlabExit(p.min[2], p.max[2], p.origin[2], p.direction[2])),
         SlabExit(p.min[3], p.max[3], p.origin[3], p.direction[3]))

\* equality of two f32 values that are not NaN
SameValue(a, b) == Le(a, b) /\ Le(b, a)

\* C21: intersect_aabb returns a value iff the largest per-axis entry
\* parameter is at most the smallest per-axis exit parameter and that exit
\* parameter is at least zero, and the value is the entry parameter clamped
\* to zero.
C21_SlabRule ==
    (probe.fn = "intersect_aabb" /\ probe.done) =>
        LET entry == LargestEntry(probe)
            exit == SmallestExit(probe)
        IN  IF Le(entry, exit) /\ Le(F(0), exit)
            THEN /\ IsSome(probe.result)
                 /\ SameValue(Unwrap(probe.result), FMax(entry, F(0)))
            ELSE probe.result = None

----------------------------------------------------------------------------
(* Reference for the triangle test: the point where the line meets the     *)
(* plane of the triangle, and on which side of each edge it is             *)

PlaneNormal(p) == Cross(Sub(p.v1, p.v0), Sub(p.v2, p.v0))

\* direction . normal: zero when the ray is parallel to the plane
Approach(p) == Dot(p.direction, PlaneNormal(p))

\* the parameter of the meeting point is Climb / Approach
Climb(p) == Dot(Sub(p.v0, p.origin), PlaneNormal(p))

\* Approach times the meeting point
MeetingPoint(p) == Add(Scale(Approach(p), p.origin), Scale(Climb(p), p.direction))

\* the meeting point is on the inner side of the edge from a to b, or on it
InnerSide(p, a, b) ==
    Sgn(Approach(p)) * Dot(Cross(Sub(b, a), Sub(MeetingPoint(p), Scale(Approach(p), a))),
                           PlaneNormal(p)) >= 0

\* the ray meets the plane in front of its origin, inside the triangle
MeetsTriangle(p) ==
    /\ Approach(p) # 0
    /\ Sgn(Approach(p)) * Climb(p) > 0
    /\ InnerSide(p, p.v0, p.v1)
    /\ InnerSide(p, p.v1, p.v2)
    /\ InnerSide(p, p.v2, p.v0)

\* C22: intersect_triangle returns a distance t only when the ray is not
\* parallel to the plane of the triangle, meets it in front of its origin
\* and inside the triangle, and then origin + t * direction is the meeting
\* point; a ray parallel to the plane, a ray that meets the plane outside
\* the triangle and a ray that meets it behind its origin return none.
C22_TriangleHit ==
    (probe.fn = "intersect_triangle" /\ probe.done) =>
        IF MeetsTriangle(probe)
        THEN probe.result = Some(Rat(Climb(probe), Approach(probe)))
        ELSE probe.result = None

\* the ray from (2, 2, 5) straight down has met the plane z = 0 outside the
\* triangle, where u = v = 1, and none was returned
C22_Witness ==
    /\ probe.fn = "intersect_triangle" /\ probe.done
    /\ probe.origin = <<2, 2, 5>> /\ probe.direction = <<0, 0, -1>>
    /\ probe.v1 = <<2, 0, 0>>
    /\ probe.result = None

----------------------------------------------------------------------------
(* Yaw and pitch under pointer motion, in milliradians *)

\* the pitch a motion asks for, before the clamp
AskedPitch == probe.prev.pitch - probe.delta[2] * MouseSensitivity

\* C23: after any sequence of pointer motions the pitch is within the clamp
\* bound, which is below 88.8 degrees (1549 milliradians) and so below 90
\* degrees (1570 milliradians); each motion changes yaw by dx * sensitivity
\* and pitch by -dy * sensitivity, the pitch is then brought to the nearer
\* bound when it is outside, and yaw is not clamped.
C23_PitchClamped ==
    (probe.fn = "process_mouse" /\ probe.calls > 0) =>
        /\ -PitchLimit <= probe.ctrl.pitch /\ probe.ctrl.pitch <= PitchLimit
        /\ PitchLimit <= 1549 /\ PitchLimit < 1570
        /\ probe.ctrl.yaw = probe.prev.yaw + probe.delta[1] * MouseSensitivity
        /\ probe.ctrl.pitch = IF AskedPitch > PitchLimit THEN PitchLimit
                              ELSE IF AskedPitch < -PitchLimit THEN -PitchLimit
                              ELSE AskedPitch

\* a motion has asked for a pitch below the bound and has turned yaw by
\* more than a whole turn
C23_Witness ==
    /\ probe.fn = "process_mouse" /\ probe.calls > 0
    /\ AskedPitch < -PitchLimit
    /\ probe.ctrl.pitch = -PitchLimit
    /\ probe.ctrl.yaw < -6283

----------------------------------------------------------------------------
(* Camera translation and the held keys *)

\* the camera as it was before the last step
CameraBefore == last_call.scene[4]

\* C24: update moves the camera in the direction of a movement key only
\* while that key is held: once the release of the key has been given to
\* input, no later update moves the camera forward (key W, along -z in the
\* direction the controller starts with) or to the right (key D, along +x).
C24_MovesOnlyWhileHeld ==
    last_call.handler = "update" =>
        /\ "KeyW" \notin held_keys => camera.shift[3] >= CameraBefore.shift[3]
        /\ "KeyD" \notin held_keys => camera.shift[1] <= CameraBefore.shift[1]

----------------------------------------------------------------------------
(* The cursor of the window *)

\* the last step was State::input with a right-button event, a press or a
\* release
RightButton(is_pressed) ==
    /\ last_call.handler = "input"
    /\ Len(last_call.arg) = 4
    /\ last_call.arg[1] = "MouseInput" /\ last_call.arg[2] = "Right"
    /\ last_call.arg[3] = is_pressed

\* C25: the cursor is confined or hidden only while the right button is
\* held after a press over the viewport; every right-button release,
\* wherever the press happened and whatever the focus, leaves the cursor
\* free and visible; and no event other than a right-button press or
\* release changes the grab or the visibility.
C25_CursorOnlyInLookMode ==
    /\ (window_cursor.grab = "Confined" \/ ~window_cursor.visible) =>
           (look_mode /\ input_handler.right_mouse_pressed)
    /\ RightButton(FALSE) => window_cursor = [grab |-> "None", visible |-> TRUE]
    /\ window_cursor # last_call.cursor => (RightButton(TRUE) \/ RightButton(FALSE))

\* a right-button release has freed a confined and hidden cursor while the
\* scene had lost the focus and the pointer was over UI chrome
C25_Witness ==
    /\ RightButton(FALSE)
    /\ last_call.cursor = [grab |-> "Confined", visible |-> FALSE]
    /\ ~input_handler.is_scene_focused
    /\ ~is_scene_hovered
    /\ window_cursor = [grab |-> "None", visible |-> TRUE]

----------------------------------------------------------------------------
(* Instance indices, checked under Spec *)

\* the instance ranges first..last of the calls of the overlays of a frame
OverlayRanges ==
    UNION {{<<c[1][c[2]].first, c[1][c[2]].last>> : c \in PassCalls(draws[k])} :
              k \in 2..Len(draws)}

\* C26: the hovered instance, when set, and every selected instance is an
\* index below the number of instances; the instance list is the one that
\* State::new built, a grid of 100 cells of which the model keeps a few;
\* and every overlay of a frame draws a range i..i+1 inside the list.
C26_ValidIndices ==
    /\ IsSome(hovered_instance) => Unwrap(hovered_instance) \in 0..(Len(instances) - 1)
    /\ \A i \in selected_instances : i \in 0..(Len(instances) - 1)
    /\ instances = last_call.scene[1]
    /\ Cardinality(GridCellsOfNew) = 100
    /\ \A k \in 1..Len(SceneCells) : <<SceneCells[k].x, SceneCells[k].z>> \in GridCellsOfNew
    /\ \A r \in OverlayRanges : r[1] >= 0 /\ r[2] = r[1] + 1 /\ r[2] <= Len(instances)

\* a frame has drawn both overlays while an instance is hovered and several
\* are selected
C26_Witness ==
    /\ Len(draws) = 3
    /\ IsSome(hovered_instance)
    /\ Cardinality(selected_instances) >= 2
    /\ OverlayRanges # {}
----------------------------------------------------------------------------
(* Resizing a scene in use, checked under SpecSceneResize *)

\* the last step was State::resize to a positive size
ResizedTo(new_size) ==
    /\ last_call.handler = "resize"
    /\ last_call.arg = new_size
    /\ new_size[1] > 0 /\ new_size[2] > 0

\* C28: resize leaves the camera, with the aspect ratio of State::new, the
\* instances and the model, the selected set, the hovered instance, the
\* start of the drag, the light, the input handler and the cursor as they
\* were; of the fields of the model it writes the surface fields only.
C28_ResizeTouchesSurfaceOnly ==
    /\ camera.aspect = InitCamera.aspect
    /\ last_call.handler = "resize" =>
          /\ scene_vars = last_call.scene
          /\ SelectionFields = before
          /\ light_vars = last_call.light
          /\ input_handler = last_call.input
          /\ window_cursor = last_call.cursor
          /\ draws = <<>> /\ queue_ops = <<>>

\* a resize from the square surface to a wider one, during a drag, with
\* an instance selected and an instance hovered
C28_Witness ==
    /\ ResizedTo(<<60, 40>>)
    /\ last_call.surface[1] = <<40, 40>>
    /\ size = <<60, 40>>
    /\ render_target # last_call.surface[4]
    /\ selected_instances # {}
    /\ IsSome(hovered_instance)
    /\ IsSome(selection_drag_start)
----------------------------------------------------------------------------
(* The 3D pass and the UI step of one frame, checked under Spec *)

\* C29: the 3D pass of a frame, both overlays included, draws the selected
\* set and the hovered instance as the frame found them, that is as the
\* frame before left them; what the UI step of the frame selects or hovers
\* is not in the draws of that frame and is in the draws of the next.
C29_OverlaysShowPreviousFrame ==
    [][(last_call'.handler = "render" /\ IsOk(render_result')) =>
          draws' = DrawCalls(state_meshes, instances, selected_instances, hovered_instance)]_vars

\* a frame whose click has replaced the selection and whose hover has
\* changed, and whose overlays show the selection and the hover of before
C29_Witness ==
    /\ last_call.handler = "render" /\ IsOk(render_result)
    /\ before.selected # {} /\ selected_instances # {}
    /\ selected_instances \cap before.selected = {}
    /\ IsSome(before.hovered) /\ IsSome(hovered_instance)
    /\ hovered_instance # before.hovered
    /\ Len(draws) = 3
    /\ draws = DrawCalls(state_meshes, instances, before.selected, before.hovered)
    /\ draws # DrawCalls(state_meshes, instances, selected_instances, hovered_instance)
----------------------------------------------------------------------------
(* Frames without a hover position, checked under Spec *)

\* the last step was a render that ran its frame to the end
FrameRan == last_call.handler = "render" /\ IsOk(render_result)

\* the Response of the frame reports no hover position
NoHoverPosition == ~(response.hovered /\ IsSome(response.hover_pos))

\* C30: a frame whose Response reports no hover position and that requests
\* no box selection runs no hit test and leaves the hovered instance and
\* the selected set as they were, also when it reports a click.
C30_NoHoverNoChange ==
    (FrameRan /\ NoHoverPosition /\ ~IsSome(box_selection_request)) =>
        /\ ~tested
        /\ hovered_instance = before.hovered
        /\ selected_instances = before.selected

\* a frame that reports a click and no hover position while an instance is
\* hovered and an instance is selected
C30_Witness ==
    /\ FrameRan /\ NoHoverPosition /\ ~IsSome(box_selection_request)
    /\ response.clicked
    /\ IsSome(before.hovered) /\ hovered_instance = before.hovered
    /\ before.selected # {} /\ selected_instances = before.selected

====
